---- MODULE Spec2Model ----
(***************************************************************************)
(* ResuMate: the hybrid resume/job match-scoring pipeline                  *)
(* (backend/app/scoring.py and backend/app/premium_scoring).               *)
(*                                                                         *)
(* Texts are sequences of one-character strings.  The regular expressions  *)
(* of the source are modelled character by character.  Non-ASCII           *)
(* characters and the words of the pattern tables are written with ASCII   *)
(* stand-ins, one model character per word of a table:                     *)
(*    "*"  the bullet U+2022 (the normalised bullet)                       *)
(*    "+"  any other bullet of the class [U+2022 U+00B7 U+25AA ...]        *)
(*    "~"  an en or em dash                                                *)
(*    "-"  the ASCII hyphen,  ":" the colon, " " "\t" "\n" whitespace      *)
(*    letters and digits are the \w characters                             *)
(* Scores are fixed-point integers: a score with one decimal is kept in    *)
(* tenths (0..1000), a weighted sum in thousandths (0..100000).            *)
(* round(x, 1) of a float is taken as exact rounding to the nearest tenth  *)
(* (ties to even); exp is a fixed-point series, within one tenth of the    *)
(* float result at a few inputs.                                           *)
(***************************************************************************)
EXTENDS Integers, Sequences, FiniteSets, TLC

VARIABLES
    skill_dict,      \* ResumeScorer.skill_dict (canonical -> aliases)
    reranker_model,  \* Reranker._model: "none" until the lazy load
    pc,              \* position of the running call
    frame            \* arguments, locals and return value of the call

vars == <<skill_dict, reranker_model, pc, frame>>

(***************************************************************************)
(* Characters                                                              *)
(***************************************************************************)
NL == "\n"
SP == " "
TAB == "\t"
BULLET == "*"
HYPHEN == "-"
COLON == ":"

\* \s of the re module (the whitespace the alphabet holds)
Whitespace == {SP, TAB, NL}

\* the character class [U+2022 U+00B7 U+25AA U+25AB U+2023 U+2043]
BulletChars == {BULLET, "+"}

\* the character class [en dash, em dash]
DashChars == {"~"}

Digits == {"0", "1", "2"}

Letters ==
    {"a", "b", "c", "d", "e", "f", "g", "h", "i", "j", "k", "l", "m",
     "n", "o", "p", "q", "r", "s", "t", "u", "v", "w", "x", "y", "z"}

Uppercase == {"A", "B", "C"}

\* \w of the re module
IsWord(c) == c \in Letters \cup Uppercase \cup Digits

\* [a-zA-Z0-9]
IsAlnum(c) == c \in Letters \cup Uppercase \cup Digits

\* str.lower(), one character
LowerChar(c) ==
    CASE c = "A" -> "a"
      [] c = "B" -> "b"
      [] c = "C" -> "c"
      [] OTHER -> c

\* str.lower()
Lower(text) == [i \in DOMAIN text |-> LowerChar(text[i])]

(***************************************************************************)
(* Sequence helpers (str methods)                                          *)
(***************************************************************************)
Min(a, b) == IF a < b THEN a ELSE b
Max(a, b) == IF a > b THEN a ELSE b

\* text[:n]
Prefix(text, n) == SubSeq(text, 1, Min(n, Len(text)))

\* the elements of a list
Range(list) == {list[i] : i \in DOMAIN list}

\* first index j >= i with text[j] not whitespace, Len(text)+1 if none
RECURSIVE SkipWS(_, _)
SkipWS(text, i) ==
    IF i > Len(text) THEN i
    ELSE IF text[i] \in Whitespace THEN SkipWS(text, i + 1)
    ELSE i

\* first index j >= i with text[j] not a \w character
RECURSIVE SkipWord(_, _)
SkipWord(text, i) ==
    IF i > Len(text) THEN i
    ELSE IF IsWord(text[i]) THEN SkipWord(text, i + 1)
    ELSE i

\* str.split('\n'): the lines of text, from index i, cur the line so far
RECURSIVE SplitFrom(_, _, _)
SplitFrom(text, i, cur) ==
    IF i > Len(text) THEN <<cur>>
    ELSE IF text[i] = NL THEN <<cur>> \o SplitFrom(text, i + 1, <<>>)
    ELSE SplitFrom(text, i + 1, Append(cur, text[i]))

SplitLines(text) == SplitFrom(text, 1, <<>>)

\* str.lstrip / str.rstrip / str.strip
RECURSIVE LStrip(_)
LStrip(s) ==
    IF s # <<>> /\ Head(s) \in Whitespace THEN LStrip(Tail(s)) ELSE s

RECURSIVE RStrip(_)
RStrip(s) ==
    IF s # <<>> /\ s[Len(s)] \in Whitespace
    THEN RStrip(SubSeq(s, 1, Len(s) - 1))
    ELSE s

Strip(s) == RStrip(LStrip(s))

\* sep.join(lines)
RECURSIVE Join(_, _)
Join(lines, sep) ==
    IF lines = <<>> THEN <<>>
    ELSE IF Len(lines) = 1 THEN lines[1]
    ELSE lines[1] \o sep \o Join(Tail(lines), sep)

\* Counter(lines)[line]
Count(lines, line) == Cardinality({i \in DOMAIN lines : lines[i] = line})

\* [line.strip() for line in lines if line.strip()], from index i
RECURSIVE StrippedLines(_, _)
StrippedLines(lines, i) ==
    IF i > Len(lines) THEN <<>>
    ELSE IF Strip(lines[i]) = <<>> THEN StrippedLines(lines, i + 1)
    ELSE <<Strip(lines[i])>> \o StrippedLines(lines, i + 1)

(***************************************************************************)
(* ResumeScorer.clean_text                                                 *)
(***************************************************************************)
\* MAX_TEXT_LENGTH (25000 in the source), scaled to the model's texts
MaxTextLength == 7
\* repeated-line removal: more than 10 lines, a line seen >= 3 times and
\* shorter than 80 characters; scaled to the model's texts
RepeatMinLines == 2
RepeatCount == 3
RepeatMaxLen == 2

\* re.sub(r'[class]\s*', repl, text), from index i
RECURSIVE SubClassWS(_, _, _, _)
SubClassWS(text, i, class, repl) ==
    IF i > Len(text) THEN <<>>
    ELSE IF text[i] \in class
         THEN repl \o SubClassWS(text, SkipWS(text, i + 1), class, repl)
         ELSE <<text[i]>> \o SubClassWS(text, i + 1, class, repl)

NormalizeBullets(text) == SubClassWS(text, 1, BulletChars, <<BULLET, SP>>)

NormalizeDashes(text) == SubClassWS(text, 1, DashChars, <<HYPHEN, SP>>)

\* re.sub(r'(\w+)-\s*\n\s*(\w+)', r'\1\2', text), from index i; used is the
\* index of the last character the previous match consumed
RECURSIVE DehyphenateFrom(_, _, _)
DehyphenateFrom(text, i, used) ==
    IF i > Len(text) THEN <<>>
    ELSE LET j == SkipWS(text, i + 1)
             k == SkipWord(text, j)
             hit == /\ text[i] = HYPHEN
                    /\ i > 1
                    /\ i - 1 > used
                    /\ IsWord(text[i - 1])
                    /\ \E n \in (i + 1)..(j - 1) : text[n] = NL
                    /\ j <= Len(text)
                    /\ IsWord(text[j])
         IN  IF hit
             THEN SubSeq(text, j, k - 1) \o DehyphenateFrom(text, k, k - 1)
             ELSE <<text[i]>> \o DehyphenateFrom(text, i + 1, used)

Dehyphenate(text) == DehyphenateFrom(text, 1, 0)

\* re.sub(r'[ \t]+', ' ', line)
RECURSIVE CollapseSpaces(_)
CollapseSpaces(line) ==
    IF line = <<>> THEN <<>>
    ELSE IF Head(line) \in {SP, TAB}
         THEN IF Len(line) > 1 /\ line[2] \in {SP, TAB}
              THEN CollapseSpaces(Tail(line))
              ELSE <<SP>> \o CollapseSpaces(Tail(line))
         ELSE <<Head(line)>> \o CollapseSpaces(Tail(line))

\* the loop over text.split('\n'): strip, collapse, drop empty lines
RECURSIVE CleanLines(_)
CleanLines(lines) ==
    IF lines = <<>> THEN <<>>
    ELSE LET line == CollapseSpaces(Strip(Head(lines)))
         IN  IF line # <<>>
             THEN <<line>> \o CleanLines(Tail(lines))
             ELSE CleanLines(Tail(lines))

\* [line for line in cleaned_lines
\*  if not (line_counts[line] >= 3 and len(line) < 80)], from index i
RECURSIVE DropRepeated(_, _)
DropRepeated(lines, i) ==
    IF i > Len(lines) THEN <<>>
    ELSE IF Count(lines, lines[i]) >= RepeatCount /\ Len(lines[i]) < RepeatMaxLen
         THEN DropRepeated(lines, i + 1)
         ELSE <<lines[i]>> \o DropRepeated(lines, i + 1)

\* frequency-based removal of repeated header/footer lines
RemoveRepeated(lines) ==
    IF Len(lines) > RepeatMinLines THEN DropRepeated(lines, 1) ELSE lines

\* the text is cut to MAX_TEXT_LENGTH first, then cleaned
clean_text(text) ==
    IF text = <<>> THEN [text |-> <<>>, was_truncated |-> FALSE]
    ELSE LET was_truncated == Len(text) > MaxTextLength
             t0 == IF was_truncated THEN Prefix(text, MaxTextLength) ELSE text
             t1 == NormalizeBullets(t0)
             t2 == NormalizeDashes(t1)
             t3 == Dehyphenate(t2)
             cleaned_lines == RemoveRepeated(CleanLines(SplitLines(t3)))
         IN  [text |-> Join(cleaned_lines, <<NL>>),
              was_truncated |-> was_truncated]

(***************************************************************************)
(* ResumeScorer.SECTION_WEIGHTS, in hundredths                             *)
(***************************************************************************)
SECTION_WEIGHTS ==
    ("SKILLS" :> 35) @@ ("EXPERIENCE" :> 40) @@ ("PROJECTS" :> 20)
        @@ ("EDUCATION" :> 5) @@ ("CERTIFICATIONS" :> 5) @@ ("OTHER" :> 5)

(***************************************************************************)
(* ResumeScorer.split_sections                                             *)
(***************************************************************************)
SectionNames ==
    {"SKILLS", "EXPERIENCE", "PROJECTS", "EDUCATION", "CERTIFICATIONS", "OTHER"}

\* section_patterns, in dict order; each heading alternation
\* (skills?|technical\s+skills?|...) is one stand-in letter
section_patterns ==
    << [name |-> "SKILLS", word |-> "s"],
       [name |-> "EXPERIENCE", word |-> "e"],
       [name |-> "PROJECTS", word |-> "j"],
       [name |-> "EDUCATION", word |-> "d"],
       [name |-> "CERTIFICATIONS", word |-> "f"] >>

\* re.match(r'^(word)(\s*:|\s*$|$)', line_stripped, re.IGNORECASE)
MatchesHeader(line, word) ==
    /\ line # <<>>
    /\ LowerChar(line[1]) = word
    /\ LET j == SkipWS(line, 2)
       IN  j > Len(line) \/ line[j] = COLON

\* the first pattern of section_patterns that matches, "" if none
RECURSIVE MatchedSection(_, _)
MatchedSection(line, i) ==
    IF i > Len(section_patterns) THEN ""
    ELSE IF MatchesHeader(line, section_patterns[i].word)
         THEN section_patterns[i].name
         ELSE MatchedSection(line, i + 1)

\* a flush that overwrites the section instead of appending to it
FlushOverwrite(sections, current_section, current_content) ==
    IF current_content # <<>>
    THEN [sections EXCEPT ![current_section] =
              Join(current_content, <<NL>>) \o <<NL>>]
    ELSE sections

\* sections[current_section] += '\n'.join(current_content) + '\n'
Flush(sections, current_section, current_content) ==
    IF current_content # <<>>
    THEN [sections EXCEPT ![current_section] =
              @ \o Join(current_content, <<NL>>) \o <<NL>>]
    ELSE sections

\* variant of the loop: at a header the lines accumulated so far are
\* flushed to the matched section, not to the section current before it
RECURSIVE SplitLoopFlushToNew(_, _, _, _, _)
SplitLoopFlushToNew(lines, i, sections, current_section, current_content) ==
    IF i > Len(lines)
    THEN Flush(sections, current_section, current_content)
    ELSE LET line_stripped == Strip(lines[i])
             matched_section == MatchedSection(line_stripped, 1)
         IN  IF line_stripped = <<>>
             THEN SplitLoopFlushToNew(lines, i + 1,
                      Flush(sections, current_section, current_content),
                      current_section, <<>>)
             ELSE IF matched_section # ""
             THEN SplitLoopFlushToNew(lines, i + 1,
                      Flush(sections, matched_section, current_content),
                      matched_section, <<>>)
             ELSE SplitLoopFlushToNew(lines, i + 1, sections, current_section,
                      Append(current_content, line_stripped))

\* the loop over resume_text.split('\n'), from line i
RECURSIVE SplitLoop(_, _, _, _, _)
SplitLoop(lines, i, sections, current_section, current_content) ==
    IF i > Len(lines)
    THEN Flush(sections, current_section, current_content)
    ELSE LET line_stripped == Strip(lines[i])
             matched_section == MatchedSection(line_stripped, 1)
         IN  IF line_stripped = <<>>
             THEN SplitLoop(lines, i + 1,
                            Flush(sections, current_section, current_content),
                            current_section, <<>>)
             ELSE IF matched_section # ""
             THEN SplitLoop(lines, i + 1,
                            Flush(sections, current_section, current_content),
                            matched_section, <<>>)
             ELSE SplitLoop(lines, i + 1, sections, current_section,
                            Append(current_content, line_stripped))

split_sections(resume_text) ==
    SplitLoop(SplitLines(resume_text), 1, [n \in SectionNames |-> <<>>],
              "OTHER", <<>>)

(***************************************************************************)
(* ResumeScorer.extract_skills                                             *)
(***************************************************************************)
\* skills.json as json.load returns it: canonical name -> aliases.
\* "a" has the alias "b" (as JavaScript has JS), "c" and "g" have none,
\* "a c" is a phrase of two words.
SkillsJson ==
    (<<"a">> :> {<<"b">>}) @@ (<<"c">> :> {}) @@ (<<"g">> :> {})
        @@ (<<"a", " ", "c">> :> {})

\* _load_skill_dict: the dictionary, or {} when open/json.load raises
LoadSkillDict(load_ok) == IF load_ok THEN SkillsJson ELSE <<>>

\* the \b before index i of text (i in 1..Len(text)+1)
Boundary(text, i) ==
    LET before == i > 1 /\ IsWord(text[i - 1])
        after == i <= Len(text) /\ IsWord(text[i])
    IN  before # after

\* r'\b' + re.escape(p) + r'\b' matches text at index i
WordAt(text, i, p) ==
    /\ i + Len(p) - 1 <= Len(text)
    /\ SubSeq(text, i, i + Len(p) - 1) = p
    /\ Boundary(text, i)
    /\ Boundary(text, i + Len(p))

\* re.search(r'\b' + re.escape(p) + r'\b', text)
WordSearch(p, text) == \E i \in 1..Len(text) : WordAt(text, i, p)

\* variant: only the canonical names are searched, the aliases are not
extract_skills_canonical(text, dict) ==
    LET text_lower == Lower(text)
    IN  { Lower(canonical) : canonical \in
            { c \in DOMAIN dict : WordSearch(Lower(c), text_lower) } }

\* the set of canonical names (lowercase) whose name or one of whose
\* aliases is found; the entries are tested independently of each other,
\* so the order sorted() gives them does not show in the set
extract_skills_in(text, dict) ==
    LET text_lower == Lower(text)
    IN  { Lower(canonical) : canonical \in
            { c \in DOMAIN dict :
                \/ WordSearch(Lower(c), text_lower)
                \/ \E alias \in dict[c] : WordSearch(Lower(alias), text_lower) } }

\* extraction with the shipped dictionary whatever was loaded
extract_skills_shipped(text) == extract_skills_in(text, SkillsJson)

\* extract_skills(text) with skill_dict = self.skill_dict
extract_skills(text) == extract_skills_in(text, skill_dict)

(***************************************************************************)
(* ResumeScorer.extract_requirements                                       *)
(***************************************************************************)
\* must_have_patterns (required, must\s+have, ...): stand-in letters
must_have_patterns == {"r", "m"}
\* preferred_patterns (preferred, bonus, nice\s+to\s+have, plus)
preferred_patterns == {"p", "n"}
\* job_text[:500], scaled to the model's texts
MustHaveHead == 3

\* any(re.search(pattern, line_lower) for pattern in patterns)
AnyPattern(patterns, line) ==
    \E i \in DOMAIN line : LowerChar(line[i]) \in patterns

\* the lines appended to must_have_lines, from line i
RECURSIVE MustHaveLines(_, _)
MustHaveLines(lines, i) ==
    IF i > Len(lines) THEN <<>>
    ELSE IF AnyPattern(must_have_patterns, lines[i])
         THEN <<lines[i]>> \o MustHaveLines(lines, i + 1)
         ELSE MustHaveLines(lines, i + 1)

\* variant: the preferred patterns tested on every line (if, not elif)
RECURSIVE PreferredLinesAnyLine(_, _)
PreferredLinesAnyLine(lines, i) ==
    IF i > Len(lines) THEN <<>>
    ELSE IF AnyPattern(preferred_patterns, lines[i])
         THEN <<lines[i]>> \o PreferredLinesAnyLine(lines, i + 1)
         ELSE PreferredLinesAnyLine(lines, i + 1)

\* the lines appended to preferred_lines (the elif branch), from line i
RECURSIVE PreferredLines(_, _)
PreferredLines(lines, i) ==
    IF i > Len(lines) THEN <<>>
    ELSE IF /\ ~AnyPattern(must_have_patterns, lines[i])
            /\ AnyPattern(preferred_patterns, lines[i])
         THEN <<lines[i]>> \o PreferredLines(lines, i + 1)
         ELSE PreferredLines(lines, i + 1)

\* a must_have_text without the fall-back to the head of the job text
MustHaveTextNoFallback(job_text) ==
    Join(MustHaveLines(SplitLines(job_text), 1), <<SP>>)

\* must_have_text
MustHaveText(job_text) ==
    LET must_have_lines == MustHaveLines(SplitLines(job_text), 1)
    IN  IF must_have_lines = <<>>
        THEN Prefix(job_text, MustHaveHead)
        ELSE Join(must_have_lines, <<SP>>)

\* preferred_text
PreferredText(job_text) ==
    Join(PreferredLines(SplitLines(job_text), 1), <<SP>>)

extract_requirements(job_text) ==
    [must_have |-> extract_skills(MustHaveText(job_text)),
     preferred |-> extract_skills(PreferredText(job_text))]

(***************************************************************************)
(* Arithmetic on fixed-point numbers                                       *)
(***************************************************************************)
\* no clamping: the value as computed
NoClamp(x, lo, hi) == x

\* max(lo, min(hi, x))
Clamp(x, lo, hi) == Max(lo, Min(hi, x))

\* round(n / d) to the nearest integer, ties to even (n >= 0, d > 0)
RoundDiv(n, d) ==
    LET q == n \div d
        r == n % d
    IN  IF 2 * r > d \/ (2 * r = d /\ q % 2 = 1) THEN q + 1 ELSE q

\* 1.0 in the fixed point of the exponential
One == 1000000
\* math.exp(-1) in that fixed point
ExpMinusOne == 367879
\* number of terms of the series of exp
ExpTerms == 12

\* a * b for a, b in 0..One, rounded
MulFP(a, b) ==
    ((a \div 1000) * b + ((a % 1000) * b) \div 1000 + 500) \div 1000

\* the series 1 - f + f^2/2! - ... of exp(-f), 0 <= f < One, from term k
RECURSIVE ExpSeries(_, _, _)
ExpSeries(f, term, k) ==
    IF k > ExpTerms THEN 0
    ELSE LET next == (MulFP(term, f) + k \div 2) \div k
         IN  (IF k % 2 = 1 THEN 0 - next ELSE next) + ExpSeries(f, next, k + 1)

\* x * exp(-n) for a natural n
RECURSIVE TimesExpMinus(_, _)
TimesExpMinus(x, n) ==
    IF n = 0 THEN x ELSE TimesExpMinus(MulFP(x, ExpMinusOne), n - 1)

\* math.exp(-t) for t >= 0, t and the result in the fixed point
ExpNeg(t) ==
    IF t >= 20 * One THEN 0
    ELSE TimesExpMinus(One + ExpSeries(t % One, One, 1), t \div One)

\* round(100 / (1 + exp(-z)), 1) in tenths, z in the fixed point
Sigmoid10(z) ==
    LET e == ExpNeg(IF z >= 0 THEN z ELSE 0 - z)
    IN  IF z >= 0 THEN RoundDiv(1000 * One, One + e)
        ELSE RoundDiv(1000 * e, One + e)

(***************************************************************************)
(* premium_scoring.calibration.sigmoid_calibrate                           *)
(***************************************************************************)
\* variant: no calibration, the score rounded to tenths
sigmoid_skipped(score) == RoundDiv(Clamp(score, 0, 100000), 100)

\* score in thousandths, result in tenths; center 50.0, steepness 0.08
sigmoid_calibrate(score) ==
    LET clamped == Clamp(score, 0, 100000)
    IN  Clamp(Sigmoid10(80 * (clamped - 50000)), 0, 1000)

(***************************************************************************)
(* ResumeScorer.keyword_score                                              *)
(***************************************************************************)
\* the shortest token re.findall(r'\b[a-zA-Z0-9]{3,}\b') returns, scaled
TokenMinLen == 1
\* stopwords (the, and, ...): a stand-in letter
stopwords == {<<"t">>}

\* re.findall(r'\b[a-zA-Z0-9]{n,}\b', text): the alphanumeric runs of at
\* least n characters, from index i
RECURSIVE FindTokens(_, _, _)
FindTokens(text, i, n) ==
    IF i > Len(text) THEN {}
    ELSE IF IsAlnum(text[i])
         THEN LET k == SkipWord(text, i)
              IN  (IF k - i >= n THEN {SubSeq(text, i, k - 1)} ELSE {})
                      \cup FindTokens(text, k, n)
         ELSE FindTokens(text, i + 1, n)

\* the token set after the stopword filter
Tokens(text) ==
    {t \in FindTokens(Lower(text), 1, TokenMinLen) :
        t \notin stopwords /\ Len(t) >= TokenMinLen}

\* variant: max_possible is always 3.5, empty partitions included
keyword_score_full_max(resume_text, job_text, must_have, preferred) ==
    LET resume_skills == extract_skills(resume_text)
        all_jd_skills == extract_skills(job_text)
        other_jd_skills == (all_jd_skills \ must_have) \ preferred
        f1 == Cardinality(resume_skills \cap must_have)
        f2 == Cardinality(resume_skills \cap preferred)
        f3 == Cardinality(resume_skills \cap other_jd_skills)
        t1 == Max(1, Cardinality(must_have))
        t2 == Max(1, Cardinality(preferred))
        t3 == Max(1, Cardinality(other_jd_skills))
        k_raw == 4 * f1 * t2 * t3 + 2 * f2 * t1 * t3 + f3 * t1 * t2
        k_den == 7 * t1 * t2 * t3
        k_num == 100 * k_raw
        resume_tokens == Tokens(resume_text)
        job_tokens == Tokens(job_text)
        inter == Cardinality(resume_tokens \cap job_tokens)
        union == Max(1, Cardinality(resume_tokens \cup job_tokens))
        j_num == IF job_tokens # {} THEN inter ELSE 0
        adjust == Clamp(100 * j_num - 5 * union, 0 - 10 * union, 10 * union)
        den == k_den * union
        num == Clamp(k_num * union + adjust * k_den, 0, 100 * den)
    IN  RoundDiv(10 * num, den)

\* K in tenths.  The components are kept as fractions: the weights 2.0, 1.0
\* and 0.5 are 4, 2 and 1 halves, K is num / den before the rounding.
keyword_score(resume_text, job_text, must_have, preferred) ==
    LET resume_skills == extract_skills(resume_text)
        all_jd_skills == extract_skills(job_text)
        other_jd_skills == (all_jd_skills \ must_have) \ preferred
        f1 == Cardinality(resume_skills \cap must_have)
        f2 == Cardinality(resume_skills \cap preferred)
        f3 == Cardinality(resume_skills \cap other_jd_skills)
        t1 == Max(1, Cardinality(must_have))
        t2 == Max(1, Cardinality(preferred))
        t3 == Max(1, Cardinality(other_jd_skills))
        \* K_raw * 2 = k_raw / (t1 * t2 * t3)
        k_raw == 4 * f1 * t2 * t3 + 2 * f2 * t1 * t3 + f3 * t1 * t2
        \* max_possible * 2
        max_possible == (IF must_have # {} THEN 4 ELSE 0)
                            + (IF preferred # {} THEN 2 ELSE 0)
                            + (IF other_jd_skills # {} THEN 1 ELSE 0)
        k_den == Max(1, max_possible) * t1 * t2 * t3
        k_num == IF max_possible > 0 THEN 100 * k_raw ELSE 0
        resume_tokens == Tokens(resume_text)
        job_tokens == Tokens(job_text)
        inter == Cardinality(resume_tokens \cap job_tokens)
        union == Max(1, Cardinality(resume_tokens \cup job_tokens))
        \* jaccard = j_num / union
        j_num == IF job_tokens # {} THEN inter ELSE 0
        \* tfidf_adjust = adjust / union
        adjust == Clamp(100 * j_num - 5 * union, 0 - 10 * union, 10 * union)
        den == k_den * union
        num == Clamp(k_num * union + adjust * k_den, 0, 100 * den)
    IN  RoundDiv(10 * num, den)

(***************************************************************************)
(* semantic_score / _semantic_retrieval_score                              *)
(***************************************************************************)
\* The embedding model is outside the repository.  An encode call either
\* raises or returns a vector; of the vectors only the dot products with
\* the job vector are used.  emb is what the calls of one request do:
\*   emb.resume_raises, emb.job_raises : encode of the resume, the job raises
\*   emb.exp_raises, emb.proj_raises   : encode of the section raises
\*   emb.whole, emb.exp, emb.proj      : the similarity in hundredths
Similarities == {-50, 80}

\* job_embedding taken as bound on every path
JobEmbeddingAlwaysBound(emb) == TRUE

\* job_embedding is bound only when both encodes of the first try block
\* returned
JobEmbeddingBound(emb) == ~emb.resume_raises /\ ~emb.job_raises

\* the similarity a section's try block leaves: 0.0 when encode raised, or
\* when np.dot raised because job_embedding is unbound
SectionSim(raises, sim, emb) ==
    IF raises \/ ~JobEmbeddingBound(emb) THEN 0 ELSE sim

\* variant: the weight of an empty section is dropped and the sum is
\* normalised by the weights that are left
SemanticBodyDropEmpty(sections, emb) ==
    LET whole_sim == IF JobEmbeddingBound(emb) THEN emb.whole ELSE 0
        exp_text == Strip(sections["EXPERIENCE"])
        proj_text == Strip(sections["PROJECTS"])
        exp_sim == IF exp_text # <<>>
                   THEN SectionSim(emb.exp_raises, emb.exp, emb) ELSE 0
        proj_sim == IF proj_text # <<>>
                    THEN SectionSim(emb.proj_raises, emb.proj, emb) ELSE 0
        total_weight == 4 + (IF exp_text # <<>> THEN 4 ELSE 0)
                          + (IF proj_text # <<>> THEN 2 ELSE 0)
        weighted_sum == 4 * whole_sim + 4 * exp_sim + 2 * proj_sim
    IN  Clamp(RoundDiv(10 * Max(0, weighted_sum), total_weight), 0, 1000)

\* the body shared by ResumeScorer.semantic_score and
\* PremiumScorer._semantic_retrieval_score; S in tenths
SemanticBody(sections, emb) ==
    LET whole_sim == IF JobEmbeddingBound(emb) THEN emb.whole ELSE 0
        exp_text == Strip(sections["EXPERIENCE"])
        proj_text == Strip(sections["PROJECTS"])
        exp_sim == IF exp_text # <<>>
                   THEN SectionSim(emb.exp_raises, emb.exp, emb) ELSE 0
        proj_sim == IF proj_text # <<>>
                    THEN SectionSim(emb.proj_raises, emb.proj, emb) ELSE 0
        \* weights 0.4, 0.4, 0.2 in tenths; total_weight is always 1.0
        weighted_sum == 4 * whole_sim
                          + (IF exp_text # <<>> THEN 4 * exp_sim ELSE 4 * whole_sim)
                          + (IF proj_text # <<>> THEN 2 * proj_sim ELSE 2 * whole_sim)
    IN  Clamp(weighted_sum, 0, 1000)

semantic_score(sections, emb) == SemanticBody(sections, emb)

semantic_retrieval_score(sections, emb) == SemanticBody(sections, emb)

(***************************************************************************)
(* ResumeScorer.evidence_score                                             *)
(***************************************************************************)
\* action_verbs (built, developed, ...): stand-in letters
action_verbs == {<<"v">>, <<"w">>}
\* (?:\w+\s+){0,6}
ContextWindow == 6

\* (?:\w+\s+){0,n}\bp\b matches text at index i
RECURSIVE GapThenWord(_, _, _, _)
GapThenWord(text, i, n, p) ==
    \/ WordAt(text, i, p)
    \/ /\ n > 0
       /\ i <= Len(text)
       /\ IsWord(text[i])
       /\ LET k == SkipWord(text, i)
          IN  /\ k <= Len(text)
              /\ text[k] \in Whitespace
              /\ GapThenWord(text, SkipWS(text, k), n - 1, p)

\* re.search(rf'\b{first}\b\s+(?:\w+\s+){{0,6}}\b{second}\b', text)
NearSearch(first, second, text) ==
    \E i \in 1..Len(text) :
        /\ WordAt(text, i, first)
        /\ LET e == i + Len(first)
           IN  /\ e <= Len(text)
               /\ text[e] \in Whitespace
               /\ \E j \in (e + 1)..SkipWS(text, e) :
                      GapThenWord(text, j, ContextWindow, second)

\* one regular-expression search: a pattern is a sequence of items
\* [k |-> "one" | "star" | "plus", s |-> set of characters]
RECURSIVE MatchAt(_, _, _, _)
MatchAt(text, i, pat, n) ==
    IF n > Len(pat) THEN TRUE
    ELSE LET here == i <= Len(text) /\ text[i] \in pat[n].s
         IN  CASE pat[n].k = "one" -> here /\ MatchAt(text, i + 1, pat, n + 1)
               [] pat[n].k = "star" ->
                      \/ MatchAt(text, i, pat, n + 1)
                      \/ here /\ MatchAt(text, i + 1, pat, n)
               [] OTHER ->
                      here /\ (\/ MatchAt(text, i + 1, pat, n + 1)
                               \/ MatchAt(text, i + 1, pat, n))

Search(pat, text) == \E i \in 1..(Len(text) + 1) : MatchAt(text, i, pat, 1)

DigitsPlus == [k |-> "plus", s |-> Digits]
SpaceStar == [k |-> "star", s |-> Whitespace]
SpacePlus == [k |-> "plus", s |-> Whitespace]
OneOf(S) == [k |-> "one", s |-> S]

\* metrics_patterns; the unit words are stand-in letters
metrics_patterns ==
    << <<DigitsPlus, SpaceStar, OneOf({"%"})>>,               \* \d+\s*%
       <<OneOf({"$"}), DigitsPlus>>,                          \* \$\d+
       <<DigitsPlus, SpaceStar, OneOf({"h"})>>,               \* ms, seconds
       <<DigitsPlus, SpaceStar, OneOf({"u"})>>,               \* users
       <<DigitsPlus, OneOf({"x"}), SpaceStar, OneOf({"q"})>>, \* \d+x faster
       <<OneOf({"i"}), SpacePlus, OneOf({"y"}), SpacePlus, DigitsPlus>>,
       <<DigitsPlus, SpaceStar, OneOf({"k"})>> >>             \* million

\* context_hits: the dictionary keys with an action verb near them
ContextHits(text_lower) ==
    Cardinality({canonical \in DOMAIN skill_dict :
        \E verb \in action_verbs :
            \/ NearSearch(verb, Lower(canonical), text_lower)
            \/ NearSearch(Lower(canonical), verb, text_lower)})

\* metrics_hits: the patterns found
MetricsHits(text_lower) ==
    Cardinality({n \in DOMAIN metrics_patterns :
                    Search(metrics_patterns[n], text_lower)})

\* variant: only the sum is capped, not the context and the metrics part
evidence_score_sum_capped(resume_text) ==
    LET text_lower == Lower(resume_text)
    IN  10 * Clamp(ContextHits(text_lower) * 10 + MetricsHits(text_lower) * 10,
                   0, 100)

\* E in tenths
evidence_score(resume_text) ==
    LET text_lower == Lower(resume_text)
        context_score == Min(60, ContextHits(text_lower) * 10)
        metrics_score == Min(40, MetricsHits(text_lower) * 10)
    IN  10 * Clamp(context_score + metrics_score, 0, 100)

(***************************************************************************)
(* premium_scoring.bm25.calculate_bm25_score                               *)
(***************************************************************************)
\* the shortest token of tokenize (2 in the source), scaled
BM25TokenMinLen == 1

\* tokenize(text) is empty
NoTokens(text) == FindTokens(Lower(text), 1, BM25TokenMinLen) = {}

\* raw_score is what BM25Okapi.get_scores returns for the resume, in tenths
\* (rank_bm25 is outside the repository); the result is in tenths.
\* 2.71828 ** x is taken as exp(x).
calculate_bm25_score(resume_text, job_text, raw_score) ==
    IF NoTokens(resume_text) \/ NoTokens(job_text) THEN 0
    ELSE Clamp(Sigmoid10(10000 * (raw_score - 50)), 0, 1000)

(***************************************************************************)
(* PremiumScorer._extract_snippets                                         *)
(***************************************************************************)
\* a snippet is longer than 20 characters; scaled
SnippetMinLen == 2
\* chunk_size (200); scaled
ChunkSize == 4
\* snippets[:20]; scaled
MaxSnippets == 2

\* [l for l in lines if len(l) > 20], from index i
RECURSIVE LongLines(_, _)
LongLines(lines, i) ==
    IF i > Len(lines) THEN <<>>
    ELSE IF Len(lines[i]) > SnippetMinLen
         THEN <<lines[i]>> \o LongLines(lines, i + 1)
         ELSE LongLines(lines, i + 1)

\* the snippets of one section: its stripped non-blank lines that are long
SectionSnippets(section_text) ==
    IF Strip(section_text) = <<>> THEN <<>>
    ELSE LongLines(StrippedLines(SplitLines(Strip(section_text)), 1), 1)

\* the chunks resume_text[i:i + chunk_size].strip() that are long, from the
\* 0-based offset i
RECURSIVE Chunks(_, _)
Chunks(resume_text, i) ==
    IF i >= Len(resume_text) THEN <<>>
    ELSE LET chunk == Strip(SubSeq(resume_text, i + 1,
                                   Min(i + ChunkSize, Len(resume_text))))
         IN  (IF Len(chunk) > SnippetMinLen THEN <<chunk>> ELSE <<>>)
                 \o Chunks(resume_text, i + ChunkSize)

\* variant: the chunks are used only when both sections are empty
extract_snippets_empty_only(resume_text, sections) ==
    LET from_sections == SectionSnippets(sections["EXPERIENCE"])
                             \o SectionSnippets(sections["PROJECTS"])
        snippets == IF /\ Strip(sections["EXPERIENCE"]) = <<>>
                       /\ Strip(sections["PROJECTS"]) = <<>>
                    THEN Chunks(resume_text, 0)
                    ELSE from_sections
    IN  Prefix(snippets, MaxSnippets)

extract_snippets(resume_text, sections) ==
    LET from_sections == SectionSnippets(sections["EXPERIENCE"])
                             \o SectionSnippets(sections["PROJECTS"])
        snippets == IF from_sections = <<>> THEN Chunks(resume_text, 0)
                    ELSE from_sections
    IN  Prefix(snippets, MaxSnippets)

(***************************************************************************)
(* premium_scoring.reranker.Reranker                                       *)
(***************************************************************************)
\* RERANK_TOP_K (5 in the source), scaled to the model's snippet lists
RerankTopK == 1
\* the relevance scores CrossEncoder.predict may give a pair
CrossScores == {-4, 6}

\* s with x inserted, s sorted in descending order (x after its equals)
RECURSIVE InsertDesc(_, _)
InsertDesc(s, x) ==
    IF s = <<>> THEN <<x>>
    ELSE IF x > Head(s) THEN <<x>> \o s
    ELSE <<Head(s)>> \o InsertDesc(Tail(s), x)

\* sorted(scores, reverse=True), stable
RECURSIVE SortDesc(_)
SortDesc(s) ==
    IF s = <<>> THEN <<>>
    ELSE InsertDesc(SortDesc(SubSeq(s, 1, Len(s) - 1)), s[Len(s)])

RECURSIVE Sum(_)
Sum(s) == IF s = <<>> THEN 0 ELSE Head(s) + Sum(Tail(s))

\* the scores rerank_snippets returns.  predict is what self.model.predict
\* does: [raised |-> TRUE] when the load of the model or predict raises,
\* else [raised |-> FALSE, scores |-> one score for each snippet]
rerank_snippets(resume_snippets, job_text, top_k, predict) ==
    IF resume_snippets = <<>> \/ job_text = <<>> THEN <<>>
    ELSE IF predict.raised
         THEN [i \in 1..Min(Len(resume_snippets), top_k) |-> 0]
         ELSE Prefix(SortDesc(predict.scores), top_k)

\* the rerank score in tenths; 2.71828 ** x is taken as exp(x)
calculate_rerank_score(resume_snippets, job_text, top_k, predict) ==
    IF resume_snippets = <<>> \/ job_text = <<>> THEN 0
    ELSE LET scores == rerank_snippets(resume_snippets, job_text, top_k, predict)
         IN  IF scores = <<>> THEN 0
             ELSE Clamp(Sigmoid10((300000 * Sum(scores)) \div Len(scores)),
                        0, 1000)

(***************************************************************************)
(* Score fusion and result assembly (ResumeScorer.score_match and          *)
(* PremiumScorer.score_match)                                              *)
(***************************************************************************)
\* KEYWORD_WEIGHT, SEMANTIC_WEIGHT, EVIDENCE_WEIGHT in hundredths
KEYWORD_WEIGHT == 55
SEMANTIC_WEIGHT == 35
EVIDENCE_WEIGHT == 10
\* PremiumScorer's weights in hundredths
BM25_WEIGHT == 35
PREMIUM_SEMANTIC_WEIGHT == 35
RERANK_WEIGHT == 20
PREMIUM_EVIDENCE_WEIGHT == 10
MUST_HAVE_PENALTY_PER_SKILL == 12
MUST_HAVE_CAP == 70
\* top_matches[:10], missing_keywords[:10]; scaled to the model's dictionary
TopLimit == 3

\* raw in thousandths from the sub-scores in tenths
\* variant: every sub-score weighted like the keyword score
ClassicRawOverweight(K, S, E) ==
    K * KEYWORD_WEIGHT + S * KEYWORD_WEIGHT + E * KEYWORD_WEIGHT

ClassicRaw(K, S, E) ==
    K * KEYWORD_WEIGHT + S * SEMANTIC_WEIGHT + E * EVIDENCE_WEIGHT

PremiumRaw(bm25_score, semantic, rerank_score, evidence) ==
    bm25_score * BM25_WEIGHT + semantic * PREMIUM_SEMANTIC_WEIGHT
        + rerank_score * RERANK_WEIGHT + evidence * PREMIUM_EVIDENCE_WEIGHT

\* no cap whatever is missing
CapNever(missing_count) == 100

\* cap = MUST_HAVE_CAP if missing_count > 0 else 100
Cap(missing_count) == IF missing_count > 0 THEN MUST_HAVE_CAP ELSE 100

\* a penalty that does not depend on the count
PenaltyFlat(missing_count) == MUST_HAVE_PENALTY_PER_SKILL

\* must_have_penalty
Penalty(missing_count) == MUST_HAVE_PENALTY_PER_SKILL * missing_count

\* variant: the penalty subtracted from the raw score, the cap applied last
ConstrainedPenaltyFirst(raw, missing_count) ==
    Clamp(Min(raw - 1000 * Penalty(missing_count), 1000 * Cap(missing_count)),
          0, 100000)

\* max(0, min(100, min(raw, cap) - must_have_penalty)), in thousandths
Constrained(raw, missing_count) ==
    Clamp(Min(raw, 1000 * Cap(missing_count)) - 1000 * Penalty(missing_count),
          0, 100000)

\* the order of the characters of the skill names
CharOrder == <<SP, "a", "b", "c", "g">>
CharRank(c) == CHOOSE i \in DOMAIN CharOrder : CharOrder[i] = c

\* x < y as Python compares str
RECURSIVE StrLess(_, _)
StrLess(x, y) ==
    IF y = <<>> THEN FALSE
    ELSE IF x = <<>> THEN TRUE
    ELSE IF Head(x) = Head(y) THEN StrLess(Tail(x), Tail(y))
    ELSE CharRank(Head(x)) < CharRank(Head(y))

\* the key (-len(x), x.lower()) of x is below that of y
KeyLess(x, y) ==
    \/ Len(x) > Len(y)
    \/ Len(x) = Len(y) /\ StrLess(Lower(x), Lower(y))

\* sorted(skills, key=lambda x: (-len(x), x.lower()))
RECURSIVE SortedByLength(_)
SortedByLength(skills) ==
    IF skills = {} THEN <<>>
    ELSE LET first == CHOOSE x \in skills :
                          \A y \in skills \ {x} : KeyLess(x, y)
         IN  <<first>> \o SortedByLength(skills \ {first})

\* sorted(list(skills))
RECURSIVE Sorted(_)
Sorted(skills) ==
    IF skills = {} THEN <<>>
    ELSE LET first == CHOOSE x \in skills :
                          \A y \in skills \ {x} : StrLess(x, y)
         IN  <<first>> \o Sorted(skills \ {first})

\* top_matches
TopMatches(resume_skills, must_have_skills, preferred_skills, matched_skills) ==
    Prefix(SortedByLength(resume_skills \cap must_have_skills)
               \o SortedByLength(resume_skills \cap preferred_skills)
               \o SortedByLength((matched_skills \ must_have_skills)
                                     \ preferred_skills),
           TopLimit)

\* missing_keywords
MissingKeywords(missing_must_have, preferred_missing, missing_skills, must_have_skills, preferred_skills) ==
    Prefix(SortedByLength(missing_must_have)
               \o SortedByLength(preferred_missing)
               \o SortedByLength((missing_skills \ must_have_skills)
                                     \ preferred_skills),
           TopLimit)

(***************************************************************************)
(* Input texts: all sequences over an alphabet up to a length              *)
(***************************************************************************)
RECURSIVE SeqsUpTo(_, _)
SeqsUpTo(S, n) ==
    IF n = 0 THEN {<<>>}
    ELSE LET shorter == SeqsUpTo(S, n - 1)
         IN  shorter \cup {Append(s, c) : s \in {x \in shorter : Len(x) = n - 1}, c \in S}

(***************************************************************************)
(* clean_text on every text over CleanAlphabet                             *)
(***************************************************************************)
\* every text over CleanAlphabet and over DashAlphabet up to CleanRichLen,
\* and every text over LongAlphabet up to MaxCleanLen (> MaxTextLength)
CleanRichLen == 6
MaxCleanLen == 8
CleanAlphabet == {"a", BULLET, HYPHEN, NL, SP}
DashAlphabet == {"a", "~", "+", NL}
LongAlphabet == {"a", BULLET, NL, SP}

NoFrame == [op |-> "none"]

InitClean ==
    /\ skill_dict = <<>>
    /\ reranker_model = "none"
    /\ pc = "call"
    /\ frame \in {[op |-> "clean_text", text |-> t, ret |-> NoFrame] :
                     t \in SeqsUpTo(CleanAlphabet, CleanRichLen)
                          \cup SeqsUpTo(DashAlphabet, CleanRichLen)
                          \cup SeqsUpTo(LongAlphabet, MaxCleanLen)}

CallCleanText ==
    /\ pc = "call"
    /\ frame.op = "clean_text"
    /\ frame' = [frame EXCEPT !.ret = clean_text(frame.text)]
    /\ pc' = "done"
    /\ UNCHANGED <<skill_dict, reranker_model>>

NextClean == CallCleanText

SpecClean == InitClean /\ [][NextClean]_vars

(***************************************************************************)
(* split_sections on every text over SplitAlphabet                         *)
(***************************************************************************)
\* every text over SplitAlphabet up to MaxSplitLen, and every text over
\* HeaderAlphabet (two headings, a content letter, the newline) up to
\* MaxHeaderLen, long enough for a heading to come twice with content
MaxSplitLen == 6
SplitAlphabet == {"s", "e", "a", COLON, SP, NL}
MaxHeaderLen == 7
HeaderAlphabet == {"s", "e", "a", NL}

InitSplit ==
    /\ skill_dict = <<>>
    /\ reranker_model = "none"
    /\ pc = "call"
    /\ frame \in {[op |-> "split_sections", text |-> t, ret |-> NoFrame] :
                     t \in SeqsUpTo(SplitAlphabet, MaxSplitLen)
                          \cup SeqsUpTo(HeaderAlphabet, MaxHeaderLen)}

CallSplitSections ==
    /\ pc = "call"
    /\ frame.op = "split_sections"
    /\ frame' = [frame EXCEPT !.ret = split_sections(frame.text)]
    /\ pc' = "done"
    /\ UNCHANGED <<skill_dict, reranker_model>>

NextSplit == CallSplitSections

SpecSplit == InitSplit /\ [][NextSplit]_vars

(***************************************************************************)
(* extract_requirements on every job text over ReqAlphabet, with the       *)
(* dictionary loaded or not                                                *)
(***************************************************************************)
MaxReqLen == 5
ReqAlphabet == {"a", "b", "c", "r", "p", SP, NL}

InitReq ==
    /\ skill_dict \in {LoadSkillDict(TRUE), LoadSkillDict(FALSE)}
    /\ reranker_model = "none"
    /\ pc = "call"
    /\ frame \in {[op |-> "extract_requirements", text |-> t, ret |-> NoFrame] :
                     t \in SeqsUpTo(ReqAlphabet, MaxReqLen)}

CallExtractRequirements ==
    /\ pc = "call"
    /\ frame.op = "extract_requirements"
    /\ frame' = [frame EXCEPT !.ret = extract_requirements(frame.text)]
    /\ pc' = "done"
    /\ UNCHANGED <<skill_dict, reranker_model>>

NextReq == CallExtractRequirements

SpecReq == InitReq /\ [][NextReq]_vars

(***************************************************************************)
(* evidence_score on resumes built from action verbs, skill names and      *)
(* metric phrases, with a dictionary of seven skills                       *)
(***************************************************************************)
\* a dictionary with enough skills to pass the cap of the context part
EvidenceSkillNames ==
    << <<"a">>, <<"c">>, <<"g">>, <<"l">>, <<"o">>, <<"d">>, <<"f">> >>

EvidenceSkillsJson ==
    [c \in Range(EvidenceSkillNames) |-> IF c = <<"a">> THEN {<<"b">>} ELSE {}]

\* one phrase for each of the metrics patterns, in their order
MetricPhrases ==
    << <<"1", "%">>, <<"$", "1">>, <<"1", "h">>, <<"1", SP, "u">>,
       <<"1", "x", "q">>, <<"i", SP, "y", SP, "1">>, <<"2", "k">> >>

\* where the action verbs stand: none, "v" before the skills, "w" after
\* them, or both
VerbPlaces == {"none", "before", "after", "both"}

\* the phrases of a set of indices, in order, from index i
RECURSIVE PhrasesOf(_, _)
PhrasesOf(metrics, i) ==
    IF i > Len(MetricPhrases) THEN <<>>
    ELSE (IF i \in metrics THEN <<MetricPhrases[i]>> ELSE <<>>)
             \o PhrasesOf(metrics, i + 1)

\* the resume: [v] skill_1 .. skill_n [w] phrases, separated by spaces
EvidenceText(verbs, skills, metrics) ==
    Join((IF verbs \in {"before", "both"} THEN << <<"v">> >> ELSE <<>>)
             \o SubSeq(EvidenceSkillNames, 1, skills)
             \o (IF verbs \in {"after", "both"} THEN << <<"w">> >> ELSE <<>>)
             \o PhrasesOf(metrics, 1),
         <<SP>>)

InitEvidence ==
    /\ skill_dict = EvidenceSkillsJson
    /\ reranker_model = "none"
    /\ pc = "call"
    /\ frame \in {[op |-> "evidence_score", verbs |-> v, skills |-> n,
                   metrics |-> m, text |-> EvidenceText(v, n, m),
                   ret |-> NoFrame] :
                     v \in VerbPlaces, n \in 0..Len(EvidenceSkillNames),
                     m \in SUBSET DOMAIN MetricPhrases}

CallEvidenceScore ==
    /\ pc = "call"
    /\ frame.op = "evidence_score"
    /\ frame' = [frame EXCEPT !.ret = evidence_score(frame.text)]
    /\ pc' = "done"
    /\ UNCHANGED <<skill_dict, reranker_model>>

NextEvidence == CallEvidenceScore

SpecEvidence == InitEvidence /\ [][NextEvidence]_vars

(***************************************************************************)
(* _extract_snippets on resumes built from lines before the headers, an    *)
(* EXPERIENCE part and a PROJECTS part, each a header with lines of length *)
(* below, at and above the snippet length                                  *)
(***************************************************************************)
MaxExpLines == 3
MaxProjLines == 2
ExpLines == { <<"a">>, <<"a", "a">>, <<"a", "a", "a">>, <<"c", SP, "c">> }
ProjLines == { <<"g">>, <<"g", "g">>, <<"g", SP, "g", "g">> }
OtherLines == { <<>>, << <<"z", "z", "z", SP, "z", "z">> >> }

\* a part of the resume: absent, or its header followed by its lines
Parts(header, lines, n) ==
    { <<>> } \cup { << <<header>> >> \o ls : ls \in SeqsUpTo(lines, n) }

SnippetText(other, exp, proj) == Join(other \o exp \o proj, <<NL>>)

InitSnippets ==
    /\ skill_dict = <<>>
    /\ reranker_model = "none"
    /\ pc = "call"
    /\ frame \in {[op |-> "extract_snippets", other |-> o, exp |-> x,
                   proj |-> y, text |-> SnippetText(o, x, y),
                   sections |-> split_sections(SnippetText(o, x, y)),
                   ret |-> NoFrame] :
                     o \in OtherLines, x \in Parts("e", ExpLines, MaxExpLines),
                     y \in Parts("j", ProjLines, MaxProjLines)}

CallExtractSnippets ==
    /\ pc = "call"
    /\ frame.op = "extract_snippets"
    /\ frame' = [frame EXCEPT !.ret = extract_snippets(frame.text, frame.sections)]
    /\ pc' = "done"
    /\ UNCHANGED <<skill_dict, reranker_model>>

NextSnippets == CallExtractSnippets

SpecSnippets == InitSnippets /\ [][NextSnippets]_vars

(***************************************************************************)
(* sigmoid_calibrate on every score of 0.000 .. 100.000                    *)
(***************************************************************************)
\* the scores of 0 .. 100 in thousandths
CalibrateScores == 0..100000

InitCalibrate ==
    /\ skill_dict = <<>>
    /\ reranker_model = "none"
    /\ pc = "call"
    /\ frame \in {[op |-> "sigmoid_calibrate", score |-> sc, ret |-> NoFrame] :
                     sc \in CalibrateScores}

CallSigmoidCalibrate ==
    /\ pc = "call"
    /\ frame.op = "sigmoid_calibrate"
    /\ frame' = [frame EXCEPT !.ret = sigmoid_calibrate(frame.score)]
    /\ pc' = "done"
    /\ UNCHANGED <<skill_dict, reranker_model>>

NextCalibrate == CallSigmoidCalibrate

SpecCalibrate == InitCalibrate /\ [][NextCalibrate]_vars

(***************************************************************************)
(* The cap, the penalty and the final score of score_match on every raw    *)
(* score of 0.000 .. 100.000 in steps of 0.005 and every count of missing  *)
(* must-have skills up to MaxMissing                                       *)
(***************************************************************************)
MaxMissing == 7
\* the raw scores in thousandths: weights in hundredths times tenths
FusionRaws == {5 * k : k \in 0..20000}

\* classic: round(final, 1); premium: sigmoid_calibrate(constrained); tenths
FinalScore(mode, constrained) ==
    IF mode = "classic" THEN RoundDiv(constrained, 100)
    ELSE sigmoid_calibrate(constrained)

InitFusion ==
    /\ skill_dict = <<>>
    /\ reranker_model = "none"
    /\ pc = "call"
    /\ frame \in {[op |-> "fusion", mode |-> m, raw |-> r, missing_count |-> n,
                   constrained |-> NoFrame, ret |-> NoFrame] :
                     m \in {"classic", "premium"}, r \in FusionRaws,
                     n \in 0..MaxMissing}

CallFusion ==
    /\ pc = "call"
    /\ frame.op = "fusion"
    /\ LET constrained == Constrained(frame.raw, frame.missing_count)
       IN  frame' = [frame EXCEPT !.constrained = constrained,
                                  !.ret = FinalScore(frame.mode, constrained)]
    /\ pc' = "done"
    /\ UNCHANGED <<skill_dict, reranker_model>>

NextFusion == CallFusion

SpecFusion == InitFusion /\ [][NextFusion]_vars

(***************************************************************************)
(* score_match: the classic and the premium pipeline, one request at a     *)
(* time, on the process-wide scorer objects                                *)
(***************************************************************************)
ResumeTexts ==
    { <<"a">>,
      <<"z">>,
      <<"b", SP, "c">>,
      <<"a", SP, "c", SP, "g">>,
      <<"e", NL, "v", SP, "a">>,
      <<"j", NL, "c", SP, "1", "%">>,
      <<"e", NL, "a", NL, "j", NL, "c">>,
      <<"e", NL, "v", SP, "a", SP, "c", NL, "j", NL, "g", SP, "1", "%">>,
      <<"z", SP, "z", SP, "z", SP, "z", SP, "b">> }

JobTexts ==
    { <<"z">>,
      <<"r", SP, "a">>,
      <<"c", SP, "g">>,
      <<"a", SP, "p">>,
      <<"r", SP, "a", SP, "c">>,
      <<"r", SP, "g", NL, "c">>,
      <<"r", SP, "a", NL, "p", SP, "c">>,
      <<"r", SP, "a", SP, "c", SP, "g">>,
      <<"r", SP, "B">> }

Modes == {"classic", "premium"}

\* the raw score BM25Okapi may give, in tenths (on a corpus of two
\* documents its idf terms can be negative)
BM25RawScores == {-5, 0, 150}

\* what the encode calls of one request may do (a similarity that is never
\* used is 0)
Embeddings(sections) ==
    LET has_exp == Strip(sections["EXPERIENCE"]) # <<>>
        has_proj == Strip(sections["PROJECTS"]) # <<>>
        first == {[resume_raises |-> TRUE, job_raises |-> FALSE, whole |-> 0],
                  [resume_raises |-> FALSE, job_raises |-> TRUE, whole |-> 0]}
                 \cup {[resume_raises |-> FALSE, job_raises |-> FALSE, whole |-> w] :
                          w \in Similarities}
        section(has) ==
            IF has THEN {[raises |-> TRUE, sim |-> 0]}
                            \cup {[raises |-> FALSE, sim |-> w] : w \in Similarities}
            ELSE {[raises |-> FALSE, sim |-> 0]}
    IN  {[resume_raises |-> f.resume_raises, job_raises |-> f.job_raises,
          whole |-> f.whole,
          exp_raises |-> e.raises, exp |-> e.sim,
          proj_raises |-> p.raises, proj |-> p.sim] :
            f \in first, e \in section(has_exp), p \in section(has_proj)}

NoEmbedding ==
    [resume_raises |-> FALSE, job_raises |-> FALSE, whole |-> 0,
     exp_raises |-> FALSE, exp |-> 0, proj_raises |-> FALSE, proj |-> 0]

\* what self.model.predict(pairs) may do: the load of the cross-encoder
\* raises (only while it is not loaded), predict raises, or predict gives
\* one score for each pair
Predictions(n, loaded) ==
    (IF loaded THEN {} ELSE {[raised |-> TRUE, at |-> "load", scores |-> <<>>]})
        \cup {[raised |-> TRUE, at |-> "predict", scores |-> <<>>]}
        \cup {[raised |-> FALSE, at |-> "none", scores |-> sc] :
                 sc \in [1..n -> CrossScores]}

\* the cross-encoder is not called
NoPrediction == [raised |-> FALSE, at |-> "skipped", scores |-> <<>>]

\* the locals of a call of score_match(resume_text, job_text) at its entry
NewFrame(mode, resume_text, job_text) ==
    [op |-> "score_match", mode |-> mode,
     resume_text |-> resume_text, job_text |-> job_text,
     resume_clean |-> <<>>, job_clean |-> <<>>,
     was_truncated |-> FALSE,
     sections |-> <<>>,
     must_have_skills |-> {}, preferred_skills |-> {},
     bm25_raw |-> 0,
     lexical |-> 0, semantic |-> 0, rerank |-> 0, evidence |-> 0,
     emb |-> NoEmbedding, snippets |-> <<>>,
     predict |-> NoPrediction,
     raw |-> 0, constrained |-> 0,
     result |-> NoFrame]

\* resume_clean, resume_truncated = clean_text(resume_text); the same for job
Cleaned(f) ==
    LET r == clean_text(f.resume_text)
        j == clean_text(f.job_text)
    IN  [f EXCEPT !.resume_clean = r.text,
                  !.job_clean = j.text,
                  !.was_truncated = r.was_truncated \/ j.was_truncated]

\* sections = split_sections(resume_clean)
Sectioned(f) == [f EXCEPT !.sections = split_sections(f.resume_clean)]

\* must_have_skills, preferred_skills = extract_requirements(job_clean)
Required(f) ==
    LET req == extract_requirements(f.job_clean)
    IN  [f EXCEPT !.must_have_skills = req.must_have,
                  !.preferred_skills = req.preferred]

\* classic: K = keyword_score(...)
Keyworded(f) ==
    [f EXCEPT !.lexical = keyword_score(f.resume_clean, f.job_clean,
                                        f.must_have_skills, f.preferred_skills)]

\* premium: bm25_score = calculate_bm25_score(resume_clean, job_clean)
BM25ed(f, raw_score) ==
    [f EXCEPT !.bm25_raw = raw_score,
              !.lexical = calculate_bm25_score(f.resume_clean, f.job_clean,
                                               raw_score)]

\* S = semantic_score(...) / self._semantic_retrieval_score(...)
Embedded(f, emb) ==
    [f EXCEPT !.emb = emb,
              !.semantic = IF f.mode = "classic"
                           THEN semantic_score(f.sections, emb)
                           ELSE semantic_retrieval_score(f.sections, emb)]

\* premium: snippets = _extract_snippets(resume_clean, sections)
Snippets(f) == extract_snippets(f.resume_clean, f.sections)

\* calculate_rerank_score gets past its first return and uses self.model
RerankerCalled(f) == Snippets(f) # <<>> /\ f.job_clean # <<>>

\* premium: rerank_score = self.reranker.calculate_rerank_score(snippets,
\* job_clean, top_k=self.RERANK_TOP_K)
Reranked(f, predict) ==
    [f EXCEPT !.snippets = Snippets(f),
              !.predict = predict,
              !.rerank = calculate_rerank_score(Snippets(f), f.job_clean,
                                                RerankTopK, predict)]

\* variant: the evidence score is dropped once the cross-encoder is loaded
EvidencedOnceLoaded(f) ==
    [f EXCEPT !.evidence = IF reranker_model = "loaded" THEN 0
                           ELSE evidence_score(f.resume_clean)]

\* E = evidence_score(resume_clean)
Evidenced(f) == [f EXCEPT !.evidence = evidence_score(f.resume_clean)]

\* the rest of score_match: the raw score, the cap and the penalty, the
\* calibration (premium), the skill lists and the returned dict
Fused(f) ==
    LET must_have_skills == f.must_have_skills
        preferred_skills == f.preferred_skills
        raw == IF f.mode = "classic"
               THEN ClassicRaw(f.lexical, f.semantic, f.evidence)
               ELSE PremiumRaw(f.lexical, f.semantic, f.rerank, f.evidence)
        resume_skills == extract_skills(f.resume_clean)
        missing_must_have == must_have_skills \ resume_skills
        missing_count == Cardinality(missing_must_have)
        cap == Cap(missing_count)
        must_have_penalty == Penalty(missing_count)
        constrained == Constrained(raw, missing_count)
        calibrated_score == sigmoid_calibrate(constrained)
        all_jd_skills == extract_skills(f.job_clean)
        matched_skills == resume_skills \cap all_jd_skills
        missing_skills == all_jd_skills \ resume_skills
        preferred_missing == preferred_skills \ resume_skills
        common ==
            [capApplied |-> cap < 100,
             mustHavePenalty |-> must_have_penalty,
             missingMustHaveCount |-> missing_count,
             mustHaveMissing |-> Sorted(missing_must_have),
             preferredMissing |-> Sorted(preferred_missing),
             matchedSkills |-> Sorted(matched_skills),
             missingSkills |-> Sorted(missing_skills),
             topMatches |-> TopMatches(resume_skills, must_have_skills,
                                       preferred_skills, matched_skills),
             missingKeywords |-> MissingKeywords(missing_must_have,
                                     preferred_missing, missing_skills,
                                     must_have_skills, preferred_skills),
             evidenceScore |-> f.evidence,
             wasTruncated |-> f.was_truncated]
        classic ==
            [finalScore |-> RoundDiv(constrained, 100),
             keywordScore |-> f.lexical,
             semanticScore |-> f.semantic]
        premium ==
            [finalScore |-> calibrated_score,
             bm25Score |-> f.lexical,
             semanticRetrievalScore |-> f.semantic,
             rerankScore |-> f.rerank,
             calibratedScore |-> calibrated_score,
             rawScore |-> raw,
             constrainedScore |-> constrained]
    IN  [f EXCEPT !.raw = raw,
                  !.constrained = constrained,
                  !.result = common @@ (IF f.mode = "classic"
                                        THEN classic ELSE premium)]

Init ==
    /\ skill_dict \in {LoadSkillDict(TRUE), LoadSkillDict(FALSE)}
    /\ reranker_model = "none"
    /\ pc = "idle"
    /\ frame = NoFrame

\* a caller calls score_match(resume_text, job_text) of one of the scorers
Request ==
    /\ pc = "idle"
    /\ \E mode \in Modes, resume_text \in ResumeTexts, job_text \in JobTexts :
           frame' = NewFrame(mode, resume_text, job_text)
    /\ pc' = "clean"
    /\ UNCHANGED <<skill_dict, reranker_model>>

CleanTexts ==
    /\ pc = "clean"
    /\ frame' = Cleaned(frame)
    /\ pc' = "split"
    /\ UNCHANGED <<skill_dict, reranker_model>>

SplitSections ==
    /\ pc = "split"
    /\ frame' = Sectioned(frame)
    /\ pc' = "requirements"
    /\ UNCHANGED <<skill_dict, reranker_model>>

ExtractRequirements ==
    /\ pc = "requirements"
    /\ frame' = Required(frame)
    /\ pc' = "lexical"
    /\ UNCHANGED <<skill_dict, reranker_model>>

KeywordScore ==
    /\ pc = "lexical"
    /\ frame.mode = "classic"
    /\ frame' = Keyworded(frame)
    /\ pc' = "semantic"
    /\ UNCHANGED <<skill_dict, reranker_model>>

BM25Score ==
    /\ pc = "lexical"
    /\ frame.mode = "premium"
    /\ \E raw_score \in BM25RawScores : frame' = BM25ed(frame, raw_score)
    /\ pc' = "semantic"
    /\ UNCHANGED <<skill_dict, reranker_model>>

SemanticScore ==
    /\ pc = "semantic"
    /\ \E emb \in Embeddings(frame.sections) : frame' = Embedded(frame, emb)
    /\ pc' = IF frame.mode = "classic" THEN "evidence" ELSE "rerank"
    /\ UNCHANGED <<skill_dict, reranker_model>>

\* The model property loads the cross-encoder on its first use.
RerankScore ==
    /\ pc = "rerank"
    /\ \E predict \in IF RerankerCalled(frame)
                      THEN Predictions(Len(Snippets(frame)), reranker_model = "loaded")
                      ELSE {NoPrediction} :
           /\ frame' = Reranked(frame, predict)
           /\ reranker_model' = IF RerankerCalled(frame) /\ predict.at # "load"
                                THEN "loaded" ELSE reranker_model
    /\ pc' = "evidence"
    /\ UNCHANGED skill_dict

EvidenceScore ==
    /\ pc = "evidence"
    /\ frame' = Evidenced(frame)
    /\ pc' = "fuse"
    /\ UNCHANGED <<skill_dict, reranker_model>>

Fuse ==
    /\ pc = "fuse"
    /\ frame' = Fused(frame)
    /\ pc' = "done"
    /\ UNCHANGED <<skill_dict, reranker_model>>

\* the caller takes the result
Return ==
    /\ pc = "done"
    /\ frame.op = "score_match"
    /\ frame' = NoFrame
    /\ pc' = "idle"
    /\ UNCHANGED <<skill_dict, reranker_model>>

Next ==
    \/ Request
    \/ CleanTexts
    \/ SplitSections
    \/ ExtractRequirements
    \/ KeywordScore
    \/ BM25Score
    \/ SemanticScore
    \/ RerankScore
    \/ EvidenceScore
    \/ Fuse
    \/ Return

Spec == Init /\ [][Next]_vars

(***************************************************************************)
(* Concurrent calls of score_match on the process-wide scorer objects.     *)
(* pc and frame hold one entry for each caller; skill_dict and             *)
(* reranker_model (Reranker._model) are the objects' shared fields.  A     *)
(* call is cut into steps at its accesses to Reranker._model: the model    *)
(* property reads it, and when it is None constructs the CrossEncoder and  *)
(* assigns it.                                                             *)
(***************************************************************************)
Procs == {1, 2}

ConcResumeTexts == { <<"z">>, <<"e", NL, "v", SP, "a">> }

ConcJobTexts == { <<"r", SP, "a">>, <<"c", SP, "g">> }

ConcRawScores == {-5, 150}

\* the encode outcomes taken here: the resume and the sections encode
ConcEmbeddings(sections) ==
    {e \in Embeddings(sections) :
        ~e.resume_raises /\ ~e.exp_raises /\ ~e.proj_raises}

\* the steps of score_match after the rerank score: evidence and fusion
Finished(f) == Fused(Evidenced(f))

InitConc ==
    /\ skill_dict \in {LoadSkillDict(TRUE), LoadSkillDict(FALSE)}
    /\ reranker_model = "none"
    /\ pc = [p \in Procs |-> "idle"]
    /\ frame = [p \in Procs |-> NoFrame]

\* caller p calls score_match
ConcRequest(p) ==
    /\ pc[p] = "idle"
    /\ \E mode \in Modes, resume_text \in ConcResumeTexts, job_text \in ConcJobTexts :
           frame' = [frame EXCEPT ![p] = NewFrame(mode, resume_text, job_text)]
    /\ pc' = [pc EXCEPT ![p] = "score"]
    /\ UNCHANGED <<skill_dict, reranker_model>>

\* p's call runs up to its first use of the reranker: cleaning, sections,
\* requirements, keyword or BM25 score, semantic score; a classic call, and
\* a premium call with no snippet, runs to its end
ConcScore(p) ==
    /\ pc[p] = "score"
    /\ \E raw_score \in ConcRawScores :
         LET f1 == Required(Sectioned(Cleaned(frame[p])))
             f2 == IF f1.mode = "classic" THEN Keyworded(f1)
                   ELSE BM25ed(f1, raw_score)
         IN  \E emb \in ConcEmbeddings(f1.sections) :
               LET f3 == Embedded(f2, emb)
               IN  IF f3.mode = "classic"
                   THEN /\ raw_score = -5
                        /\ frame' = [frame EXCEPT ![p] = Finished(f3)]
                        /\ pc' = [pc EXCEPT ![p] = "done"]
                   ELSE IF RerankerCalled(f3)
                   THEN /\ frame' = [frame EXCEPT ![p] = f3]
                        /\ pc' = [pc EXCEPT ![p] = "model"]
                   ELSE /\ frame' = [frame EXCEPT
                                        ![p] = Finished(Reranked(f3, NoPrediction))]
                        /\ pc' = [pc EXCEPT ![p] = "done"]
    /\ UNCHANGED <<skill_dict, reranker_model>>

\* Reranker.model: if self._model is None
ConcModelCheck(p) ==
    /\ pc[p] = "model"
    /\ pc' = [pc EXCEPT ![p] = IF reranker_model = "none" THEN "load" ELSE "predict"]
    /\ UNCHANGED <<skill_dict, reranker_model, frame>>

\* Reranker.model: self._model = CrossEncoder(self.model_name); when the
\* constructor raises, rerank_snippets takes its fallback
ConcModelLoad(p) ==
    /\ pc[p] = "load"
    /\ \/ /\ reranker_model' = "loaded"
          /\ pc' = [pc EXCEPT ![p] = "predict"]
          /\ UNCHANGED frame
       \/ /\ frame' = [frame EXCEPT ![p] = Finished(Reranked(frame[p],
                          [raised |-> TRUE, at |-> "load", scores |-> <<>>]))]
          /\ pc' = [pc EXCEPT ![p] = "done"]
          /\ UNCHANGED reranker_model
    /\ UNCHANGED skill_dict

\* self.model.predict(pairs) and the rest of the call
ConcPredict(p) ==
    /\ pc[p] = "predict"
    /\ \E predict \in Predictions(Len(Snippets(frame[p])), TRUE) :
           frame' = [frame EXCEPT ![p] = Finished(Reranked(frame[p], predict))]
    /\ pc' = [pc EXCEPT ![p] = "done"]
    /\ UNCHANGED <<skill_dict, reranker_model>>

\* p's caller takes the result
ConcReturn(p) ==
    /\ pc[p] = "done"
    /\ frame' = [frame EXCEPT ![p] = NoFrame]
    /\ pc' = [pc EXCEPT ![p] = "idle"]
    /\ UNCHANGED <<skill_dict, reranker_model>>

NextConc ==
    \E p \in Procs :
        \/ ConcRequest(p)
        \/ ConcScore(p)
        \/ ConcModelCheck(p)
        \/ ConcModelLoad(p)
        \/ ConcPredict(p)
        \/ ConcReturn(p)

SpecConc == InitConc /\ [][NextConc]_vars

(***************************************************************************)
(* Claims about score_match (Spec)                                         *)
(***************************************************************************)
Done == pc = "done" /\ frame.op = "score_match"

Score == 0..1000

\* C1: both pipelines return finalScore in [0,100] and every sub-score in
\* [0,100] (scores in tenths).
C1_ScoresInRange ==
    Done =>
        /\ frame.result.finalScore \in Score
        /\ frame.result.evidenceScore \in Score
        /\ frame.mode = "classic" =>
               /\ frame.result.keywordScore \in Score
               /\ frame.result.semanticScore \in Score
        /\ frame.mode = "premium" =>
               /\ frame.result.bm25Score \in Score
               /\ frame.result.semanticRetrievalScore \in Score
               /\ frame.result.rerankScore \in Score
               /\ frame.result.calibratedScore \in Score

\* both pipelines have returned, a similarity was negative and a score is
\* above zero
C1_Witness ==
    /\ Done
    /\ frame.mode = "premium"
    /\ ~frame.emb.resume_raises /\ ~frame.emb.job_raises
    /\ frame.emb.whole < 0
    /\ frame.result.semanticRetrievalScore = 0
    /\ frame.result.finalScore > 0
    /\ frame.result.rerankScore > 0

\* C2: when a must-have skill is missing, the cap is reported as applied,
\* the penalty is positive, and the constrained score and finalScore are at
\* most 70.
C2_CapInvariant ==
    (Done /\ frame.result.missingMustHaveCount > 0) =>
        /\ frame.result.capApplied
        /\ frame.result.mustHavePenalty > 0
        /\ frame.constrained <= 1000 * MUST_HAVE_CAP
        /\ frame.result.finalScore <= 10 * MUST_HAVE_CAP

\* a must-have skill is missing and the raw score is above the cap
C2_Witness ==
    /\ Done
    /\ frame.result.missingMustHaveCount > 0
    /\ frame.raw > 1000 * MUST_HAVE_CAP

\* C3: when no must-have skill is missing, no cap is reported, the penalty
\* is 0, mustHaveMissing is empty and the constrained score is the raw
\* weighted sum clamped to [0,100].
C3_NoCapInvariant ==
    (Done /\ frame.result.missingMustHaveCount = 0) =>
        /\ ~frame.result.capApplied
        /\ frame.result.mustHavePenalty = 0
        /\ frame.result.mustHaveMissing = <<>>
        /\ frame.constrained = (IF frame.raw < 0 THEN 0
                                ELSE IF frame.raw > 100000 THEN 100000
                                ELSE frame.raw)
        /\ frame.mode = "premium" => frame.result.constrainedScore = frame.constrained

\* the job has must-have skills, the resume has them all, and the raw
\* score is above the cap that a missing skill would set
C3_Witness ==
    /\ Done
    /\ frame.must_have_skills # {}
    /\ frame.result.missingMustHaveCount = 0
    /\ frame.raw > 1000 * MUST_HAVE_CAP

\* the cross-encoder was called and its load or its predict raised
RerankerRaised == frame.predict.raised

\* C4 as stated: when the load of the cross-encoder or predict raises,
\* premium score_match still returns a result, with rerankScore 0.0.
C4_RerankFailureZero ==
    (Done /\ frame.mode = "premium" /\ RerankerRaised) =>
        frame.result.rerankScore = 0

\* an encode call that was made raised
SomeEncodeRaised ==
    \/ frame.emb.resume_raises
    \/ frame.emb.job_raises
    \/ frame.emb.exp_raises
    \/ frame.emb.proj_raises

\* the semantic sub-score of the result
SemanticOfResult ==
    IF frame.mode = "classic" THEN frame.result.semanticScore
    ELSE frame.result.semanticRetrievalScore

SectionTerm(weight, text, raises, sim) ==
    IF Strip(text) = <<>> THEN weight * frame.emb.whole
    ELSE IF raises THEN 0
    ELSE weight * sim

SkillPartsEmpty ==
    /\ extract_skills(frame.resume_clean) = {}
    /\ extract_skills(frame.job_clean) = {}
    /\ frame.must_have_skills = {}
    /\ frame.preferred_skills = {}
    /\ frame.result.matchedSkills = <<>>
    /\ frame.result.missingSkills = <<>>
    /\ frame.result.missingMustHaveCount = 0

\* C6 as stated: with the dictionary failed to load (empty), extract_skills
\* is empty, the must-have and preferred sets are empty and keyword_score
\* returns 0, for every resume/job pair.
C6_EmptyDictAllZero ==
    (Done /\ frame.mode = "classic" /\ skill_dict = <<>>) =>
        /\ SkillPartsEmpty
        /\ frame.result.keywordScore = 0

\* the Jaccard adjustment clamp((jaccard - 0.05) * 100, -10, 10) cut at 0,
\* in tenths
JaccardPart(resume_text, job_text) ==
    LET inter == Cardinality(Tokens(resume_text) \cap Tokens(job_text))
        union == Cardinality(Tokens(resume_text) \cup Tokens(job_text))
    IN  IF union = 0 THEN 0
        ELSE LET adjust10 == RoundDiv(10 * (100 * inter - 5 * union), union)
             IN  IF adjust10 < 0 THEN 0 ELSE IF adjust10 > 100 THEN 100
                 ELSE adjust10

\* C6 amended: with the dictionary failed to load (empty) the scorer still
\* works; extract_skills is empty, the must-have and preferred sets and the
\* skill lists are empty, and keyword_score is only the token-overlap
\* (Jaccard) adjustment, between 0.0 and 10.0: it is 0.0 when the texts
\* share no token and need not be 0.0 otherwise.
C6_EmptyDictSkillPartsZero ==
    (Done /\ frame.mode = "classic" /\ skill_dict = <<>>) =>
        /\ SkillPartsEmpty
        /\ frame.result.keywordScore = JaccardPart(frame.resume_clean, frame.job_clean)
        /\ frame.result.keywordScore \in 0..100
        /\ (Tokens(frame.resume_clean) \cap Tokens(frame.job_clean) = {}
               => frame.result.keywordScore = 0)

\* the dictionary is empty, both texts name a shipped skill and the keyword
\* score is above zero
C6_Witness ==
    /\ Done
    /\ frame.mode = "classic"
    /\ skill_dict = <<>>
    /\ extract_skills_shipped(frame.resume_clean) # {}
    /\ extract_skills_shipped(frame.job_clean) # {}
    /\ frame.result.keywordScore > 0

(***************************************************************************)
(* Claims about clean_text (SpecClean)                                     *)
(***************************************************************************)
CleanDone == pc = "done" /\ frame.op = "clean_text"

\* C7: for every input text clean_text returns a text of at most
\* MAX_TEXT_LENGTH characters, and an input longer than MAX_TEXT_LENGTH is
\* reported as truncated.
C7_CleanTextBounded ==
    CleanDone =>
        /\ Len(frame.ret.text) <= MaxTextLength
        /\ (Len(frame.text) > MaxTextLength => frame.ret.was_truncated)

\* the cleanup steps in their order on the whole of a text, no cut
FullyCleaned(text) ==
    LET t1 == NormalizeBullets(text)
        t2 == NormalizeDashes(t1)
        t3 == Dehyphenate(t2)
    IN  Join(RemoveRepeated(CleanLines(SplitLines(t3))), <<NL>>)

\* C19: clean_text applies bullet normalization, dash normalization,
\* de-hyphenation, whitespace collapse with blank-line removal and
\* repeated-line removal, and truncation last: the returned text is the
\* fully cleaned whole input cut to its first MAX_TEXT_LENGTH characters,
\* and wasTruncated is True exactly when that cut removed characters.
C19_TruncationLast ==
    CleanDone =>
        LET full == FullyCleaned(frame.text)
        IN  /\ frame.ret.text = Prefix(full, MaxTextLength)
            /\ frame.ret.was_truncated = (Len(full) > MaxTextLength)

(***************************************************************************)
(* Claims about split_sections (SpecSplit)                                 *)
(***************************************************************************)
SplitDone == pc = "done" /\ frame.op = "split_sections"

SectionOrder ==
    <<"SKILLS", "EXPERIENCE", "PROJECTS", "EDUCATION", "CERTIFICATIONS", "OTHER">>

\* the lines of a section's text (each line of it ends with a newline)
SectionLines(blob) ==
    LET ls == SplitLines(blob) IN SubSeq(ls, 1, Len(ls) - 1)

IsHeaderLine(line) ==
    \E i \in DOMAIN section_patterns : MatchesHeader(line, section_patterns[i].word)

\* the stripped non-blank lines that are no section header, in order
RECURSIVE ContentLines(_, _)
ContentLines(lines, i) ==
    IF i > Len(lines) THEN <<>>
    ELSE IF IsHeaderLine(lines[i]) THEN ContentLines(lines, i + 1)
    ELSE <<lines[i]>> \o ContentLines(lines, i + 1)

\* how often a line occurs in the sections i.. of SectionOrder
RECURSIVE CountInSections(_, _, _)
CountInSections(sections, line, i) ==
    IF i > Len(SectionOrder) THEN 0
    ELSE Count(SectionLines(sections[SectionOrder[i]]), line)
             + CountInSections(sections, line, i + 1)

\* a is b with some elements left out
RECURSIVE IsSubsequence(_, _)
IsSubsequence(a, b) ==
    IF a = <<>> THEN TRUE
    ELSE IF b = <<>> THEN FALSE
    ELSE IF Head(a) = Head(b) THEN IsSubsequence(Tail(a), Tail(b))
    ELSE IsSubsequence(a, Tail(b))

\* the sections hold exactly the given lines, each once, in input order
Partitions(sections, lines) ==
    /\ \A i \in DOMAIN lines :
           CountInSections(sections, lines[i], 1) = Count(lines, lines[i])
    /\ \A n \in SectionNames :
           /\ IsSubsequence(SectionLines(sections[n]), lines)
           /\ \A i \in DOMAIN SectionLines(sections[n]) :
                  Count(lines, SectionLines(sections[n])[i]) > 0

\* C8 as stated: every non-blank line of the input is in exactly one of the
\* six sections, none is lost, and each section keeps the input order.
C8_EveryLineInOneSection ==
    SplitDone =>
        Partitions(frame.ret, StrippedLines(SplitLines(frame.text), 1))

\* C8 amended: every non-blank line that is not matched as a section header
\* is (stripped) in exactly one section, and each section keeps the input
\* order; a line matched as a header is in no section.
C8_ContentLinesPartitioned ==
    SplitDone =>
        Partitions(frame.ret,
                   ContentLines(StrippedLines(SplitLines(frame.text), 1), 1))

\* a header, content before it and content after it
C8_Witness ==
    /\ SplitDone
    /\ frame.ret["OTHER"] # <<>>
    /\ frame.ret["SKILLS"] # <<>>
    /\ \E i \in DOMAIN frame.text : frame.text[i] = "s"

\* the lines (stripped, non-blank) from line i on that belong to section n,
\* in input order, when current is the section of the last header before
\* line i: a header line switches the section, any other line belongs to
\* the section current at it
RECURSIVE LinesOf(_, _, _, _)
LinesOf(lines, i, current, n) ==
    IF i > Len(lines) THEN <<>>
    ELSE IF IsHeaderLine(lines[i])
         THEN LinesOf(lines, i + 1, MatchedSection(lines[i], 1), n)
         ELSE (IF current = n THEN <<lines[i]>> ELSE <<>>)
                  \o LinesOf(lines, i + 1, current, n)

\* C20: in split_sections the lines before any header go to OTHER; at a
\* header the lines accumulated so far are appended to the section that was
\* current before it and the current section switches to the matched one; a
\* later header of a section seen before appends its lines to the section's
\* text and never overwrites it.  So every section holds, in input order,
\* all the lines that follow one of its headers up to the next header, and
\* OTHER also those before the first header.
C20_SectionsAccumulate ==
    SplitDone =>
        \A n \in SectionNames :
            SectionLines(frame.ret[n])
                = LinesOf(StrippedLines(SplitLines(frame.text), 1), 1, "OTHER", n)

\* the SKILLS header twice with a line after each: SKILLS has both lines
C20_Witness ==
    /\ SplitDone
    /\ frame.text = <<"s", NL, "a", NL, "s", NL, "a">>
    /\ SectionLines(frame.ret["SKILLS"]) = << <<"a">>, <<"a">> >>
    /\ frame.ret["OTHER"] = <<>>

(***************************************************************************)
(* Claims about extract_requirements (SpecReq)                             *)
(***************************************************************************)
ReqDone == pc = "done" /\ frame.op = "extract_requirements"

\* C9: for every job text the must-have set and the preferred set of
\* extract_requirements are disjoint.
C9_RequirementsDisjoint ==
    ReqDone => frame.ret.must_have \cap frame.ret.preferred = {}

\* a dictionary skill or alias is in the text as a whole word
SkillIn(text) ==
    \E c \in DOMAIN skill_dict :
        \/ WordSearch(Lower(c), Lower(text))
        \/ \E alias \in skill_dict[c] : WordSearch(Lower(alias), Lower(text))

\* no line of the text has must-have language
NoMustHaveLine(text) ==
    \A i \in DOMAIN text : LowerChar(text[i]) \notin must_have_patterns

\* some line with must-have language names a dictionary skill
SkillOnMustHaveLine(text) ==
    \E i \in DOMAIN SplitLines(text) :
        /\ ~NoMustHaveLine(SplitLines(text)[i])
        /\ SkillIn(SplitLines(text)[i])

\* C10 as stated: every non-empty job text gives a non-empty must-have set
\* (here with the dictionary loaded).
C10_MustHaveNeverEmpty ==
    (ReqDone /\ skill_dict # <<>> /\ frame.text # <<>>) =>
        frame.ret.must_have # {}

\* C10 amended: the must-have set is non-empty whenever its source names a
\* dictionary skill: a line with must-have language does, or no line has
\* must-have language and the first MustHaveHead characters do.  It is empty
\* when the job text is empty, and whenever the source names no skill.
C10_MustHaveFromSource ==
    ReqDone =>
        /\ (frame.text = <<>> => frame.ret.must_have = {})
        /\ (SkillOnMustHaveLine(frame.text) => frame.ret.must_have # {})
        /\ (NoMustHaveLine(frame.text)
              => (frame.ret.must_have # {}
                    <=> SkillIn(Prefix(frame.text, MustHaveHead))))
        /\ (frame.ret.must_have # {} => SkillIn(MustHaveText(frame.text)))

\* no required language, and the head of the text names a skill
C10_Witness ==
    /\ ReqDone
    /\ frame.text # <<>>
    /\ NoMustHaveLine(frame.text)
    /\ frame.ret.must_have # {}


\* the priority group of a skill in the current call: 1 must-have,
\* 2 preferred, 3 other
GroupOf(x) ==
    IF x \in frame.must_have_skills THEN 1
    ELSE IF x \in frame.preferred_skills THEN 2
    ELSE 3

\* x comes before y: an earlier group, or the same group and the longer
\* string, or the same length and the lexicographically smaller string
Before(x, y) ==
    \/ GroupOf(x) < GroupOf(y)
    \/ GroupOf(x) = GroupOf(y) /\ KeyLess(x, y)

\* the skills of a set in that order
RECURSIVE InPriorityOrder(_)
InPriorityOrder(skills) ==
    IF skills = {} THEN <<>>
    ELSE LET first == CHOOSE x \in skills : \A y \in skills \ {x} : Before(x, y)
         IN  <<first>> \o InPriorityOrder(skills \ {first})

\* C13: topMatches and missingKeywords have at most 10 entries (TopLimit here)
\* and are the first entries of the matched, respectively missing, skills
\* ordered by priority group (must-have, preferred, other), inside a group
\* by descending length, then lexicographically.
C13_PriorityOrder ==
    Done =>
        /\ Len(frame.result.topMatches) <= TopLimit
        /\ Len(frame.result.missingKeywords) <= TopLimit
        /\ frame.result.topMatches =
               Prefix(InPriorityOrder(Range(frame.result.matchedSkills)), TopLimit)
        /\ frame.result.missingKeywords =
               Prefix(InPriorityOrder(Range(frame.result.missingSkills)), TopLimit)

\* the same order, for the calls whose job text names no skill as both
\* must-have and preferred
C13_PriorityOrderDisjoint ==
    (Done /\ frame.must_have_skills \cap frame.preferred_skills = {}) =>
        /\ frame.result.topMatches =
               Prefix(InPriorityOrder(Range(frame.result.matchedSkills)), TopLimit)
        /\ frame.result.missingKeywords =
               Prefix(InPriorityOrder(Range(frame.result.missingSkills)), TopLimit)

\* the raw score, in thousandths
RawRange == 0..100000

RECURSIVE SumOver(_, _)
SumOver(weights, names) ==
    IF names = {} THEN 0
    ELSE LET name == CHOOSE n \in names : TRUE
         IN  weights[name] + SumOver(weights, names \ {name})

SectionWeightsTotal == SumOver(SECTION_WEIGHTS, DOMAIN SECTION_WEIGHTS)

\* C15: the values of SECTION_WEIGHTS (SKILLS, EXPERIENCE, PROJECTS,
\* EDUCATION, CERTIFICATIONS, OTHER) sum to 1.0 within a tolerance of 0.01
\* (100 within 1, in hundredths), on a constructed scorer waiting for a call.
C15_SectionWeightsSum ==
    pc = "idle" =>
        /\ DOMAIN SECTION_WEIGHTS = SectionNames
        /\ SectionWeightsTotal > 99
        /\ SectionWeightsTotal < 101

\* text contains word as a whole word, whatever the case
ContainsWord(text, word) == WordSearch(Lower(word), Lower(text))

\* one of the two texts has the alias and the other the canonical name, and
\* the canonical name is in matchedSkills
AliasMatched(resume, job) ==
    \A c \in DOMAIN skill_dict : \A alias \in skill_dict[c] :
        (\/ ContainsWord(resume, alias) /\ ContainsWord(job, c)
         \/ ContainsWord(resume, c) /\ ContainsWord(job, alias))
            => Lower(c) \in Range(frame.result.matchedSkills)

\* C16: for every dictionary entry with canonical name c and alias a, a
\* resume text that contains a as a whole word and a job text that contains
\* c as a whole word (or the other way round) yield the lowercase canonical
\* name in matchedSkills.
C16_AliasResolved == Done => AliasMatched(frame.resume_text, frame.job_text)

\* C16, amended: the same for the texts as clean_text returns them (the
\* first MAX_TEXT_LENGTH characters, cleaned), which are the texts the
\* skills are extracted from.
C16_AliasResolvedInCleanText ==
    Done => AliasMatched(frame.resume_clean, frame.job_clean)

\* the resume has only the alias b and the job only the canonical name a,
\* or the other way round, and a is matched
C16_Witness ==
    /\ Done
    /\ skill_dict # <<>>
    /\ \/ /\ ContainsWord(frame.resume_clean, <<"b">>)
          /\ ~ContainsWord(frame.resume_clean, <<"a">>)
          /\ ContainsWord(frame.job_clean, <<"a">>)
          /\ ~ContainsWord(frame.job_clean, <<"b">>)
       \/ /\ ContainsWord(frame.resume_clean, <<"a">>)
          /\ ~ContainsWord(frame.resume_clean, <<"b">>)
          /\ ContainsWord(frame.job_clean, <<"b">>)
          /\ ~ContainsWord(frame.job_clean, <<"a">>)
    /\ <<"a">> \in Range(frame.result.matchedSkills)

\* 100 / (1 + exp(-0.08 * (score - 50))) rounded to 1 decimal, for a score
\* in thousandths, in tenths
Calibration(score) == Clamp(Sigmoid10(80 * (score - 50000)), 0, 1000)

\* the value after the cap and the penalty, from the reported raw score and
\* the reported count of missing must-have skills, in thousandths
AfterCapAndPenalty(raw, missing_count) ==
    LET cap == IF missing_count > 0 THEN 1000 * MUST_HAVE_CAP ELSE 100000
        penalty == 1000 * MUST_HAVE_PENALTY_PER_SKILL * missing_count
    IN  Max(0, Min(100000, Min(raw, cap) - penalty))

\* C17: in the premium pipeline the stages run in the order raw, cap and
\* penalty, calibration: finalScore equals calibratedScore and both equal
\* the sigmoid (center 50, steepness 0.08) of constrainedScore, which is the
\* raw score after cap and penalty.  In the classic pipeline finalScore is
\* the constrained score rounded to 1 decimal, with no calibration.
C17_StageOrder ==
    Done =>
        LET r == frame.result
            n == r.missingMustHaveCount
        IN  /\ frame.mode = "premium" =>
                /\ r.rawScore = PremiumRaw(r.bm25Score, r.semanticRetrievalScore,
                                           r.rerankScore, r.evidenceScore)
                /\ r.constrainedScore = AfterCapAndPenalty(r.rawScore, n)
                /\ r.calibratedScore = Calibration(r.constrainedScore)
                /\ r.finalScore = r.calibratedScore
            /\ frame.mode = "classic" =>
                r.finalScore =
                    RoundDiv(AfterCapAndPenalty(
                        ClassicRaw(r.keywordScore, r.semanticScore, r.evidenceScore),
                        n), 100)

\* a premium call has returned with the cap applied and a penalty, and the
\* calibration changed the constrained score
C17_Witness ==
    /\ Done
    /\ frame.mode = "premium"
    /\ frame.result.capApplied
    /\ frame.result.rawScore > 1000 * MUST_HAVE_CAP
    /\ frame.result.constrainedScore < frame.result.rawScore
    /\ frame.result.constrainedScore > 0
    /\ 100 * frame.result.finalScore # frame.result.constrainedScore
    /\ frame.result.finalScore # Calibration(frame.result.rawScore)

\* |mustHaveSkills minus resumeSkills| of the current call
MissingCount ==
    Cardinality(frame.must_have_skills \ extract_skills(frame.resume_clean))

\* C18: the constrained score is clamp(min(raw, cap) - penalty, 0, 100) with
\* cap = 70 if missingCount > 0 else 100 and penalty = 12 * missingCount,
\* missingCount = |mustHaveSkills minus resumeSkills|, the cap applied first
\* and the penalty subtracted from the capped value, in both modes;
\* mustHavePenalty = 12 * missingMustHaveCount and missingMustHaveCount is
\* the length of mustHaveMissing.
C18_ConstrainedFormula ==
    Done =>
        /\ frame.constrained = AfterCapAndPenalty(frame.raw, MissingCount)
        /\ frame.mode = "premium" =>
               /\ frame.result.rawScore = frame.raw
               /\ frame.result.constrainedScore = frame.constrained
        /\ frame.result.missingMustHaveCount = MissingCount
        /\ frame.result.mustHavePenalty =
               MUST_HAVE_PENALTY_PER_SKILL * frame.result.missingMustHaveCount
        /\ frame.result.missingMustHaveCount = Len(frame.result.mustHaveMissing)
        /\ frame.result.capApplied = (MissingCount > 0)

\* a classic call has returned with a raw score above the cap and a missing
\* must-have skill: the score was cut to 70 and the penalty taken from that
C18_Witness ==
    /\ Done
    /\ frame.mode = "classic"
    /\ MissingCount > 0
    /\ frame.raw > 1000 * MUST_HAVE_CAP
    /\ frame.constrained =
           1000 * (MUST_HAVE_CAP - MUST_HAVE_PENALTY_PER_SKILL * MissingCount)

(***************************************************************************)
(* Claims about concurrent calls (SpecConc)                                *)
(***************************************************************************)
\* a call of caller p is in flight
InCall(p) == pc[p] # "idle"

\* the fields of the process-wide scorer objects
Shared == <<skill_dict, reranker_model>>

\* C11: concurrent score_match calls share no mutable state other than the
\* skill dictionary, which is only read: while two calls are in flight no
\* step of either writes a field of the shared scorer objects, and the
\* skill dictionary never changes after load.
C11_NoSharedWrites ==
    [][(\A p, q \in Procs : (p # q /\ InCall(p) /\ InCall(q)) => Shared' = Shared)
        /\ skill_dict' = skill_dict]_vars


\* the calls of p and q got the same arguments, and the models they called
\* (BM25Okapi, the sentence encoder, the cross-encoder) gave the same outputs
SameCall(p, q) ==
    /\ frame[p].mode = frame[q].mode
    /\ frame[p].resume_text = frame[q].resume_text
    /\ frame[p].job_text = frame[q].job_text
    /\ frame[p].bm25_raw = frame[q].bm25_raw
    /\ frame[p].emb = frame[q].emb
    /\ frame[p].predict = frame[q].predict

ClassOf(line) ==
    IF \E i \in DOMAIN line : LowerChar(line[i]) \in must_have_patterns
    THEN "must_have"
    ELSE IF \E i \in DOMAIN line : LowerChar(line[i]) \in preferred_patterns
    THEN "preferred"
    ELSE "none"

\* the lines of a class, in order, from line i
RECURSIVE LinesOfClass(_, _, _)
LinesOfClass(lines, class, i) ==
    IF i > Len(lines) THEN <<>>
    ELSE (IF ClassOf(lines[i]) = class THEN <<lines[i]>> ELSE <<>>)
             \o LinesOfClass(lines, class, i + 1)

\* the must-have source: the head of the job text exactly when no line is
\* must-have, else the must-have lines
MustHaveSource(job_text) ==
    LET must == LinesOfClass(SplitLines(job_text), "must_have", 1)
    IN  IF must = <<>> THEN Prefix(job_text, MustHaveHead)
        ELSE Join(must, <<SP>>)

\* the preferred source: the preferred lines
PreferredSource(job_text) ==
    Join(LinesOfClass(SplitLines(job_text), "preferred", 1), <<SP>>)

\* C21: extract_requirements puts each job line into at most one class,
\* must-have patterns first (a line with a must-have and a preferred pattern
\* is must-have only); the must-have source is the first 500 characters
\* (MustHaveHead here) exactly when no line is must-have, else the must-have
\* lines; the preferred source is the preferred lines.  The two sets are the
\* skills of these sources.
C21_RequirementSources ==
    ReqDone =>
        /\ frame.ret.must_have = extract_skills(MustHaveSource(frame.text))
        /\ frame.ret.preferred = extract_skills(PreferredSource(frame.text))
        /\ MustHaveText(frame.text) = MustHaveSource(frame.text)
        /\ PreferredText(frame.text) = PreferredSource(frame.text)

\* one line has a must-have pattern, a preferred pattern and a skill: the
\* skill is must-have and not preferred
C21_Witness ==
    /\ ReqDone
    /\ skill_dict # <<>>
    /\ Len(SplitLines(frame.text)) = 1
    /\ \E i \in DOMAIN frame.text : frame.text[i] \in must_have_patterns
    /\ \E i \in DOMAIN frame.text : frame.text[i] \in preferred_patterns
    /\ frame.ret.must_have = {<<"a">>}
    /\ frame.ret.preferred = {}


(***************************************************************************)
(* Claims about the sub-scores of score_match (Spec)                       *)
(***************************************************************************)
\* the partitions of the job's skills in the current call, with their
\* weights 2.0, 1.0 and 0.5 in halves
KeywordPartitions ==
    LET must == frame.must_have_skills
        pref == frame.preferred_skills
        other == (extract_skills(frame.job_clean) \ must) \ pref
    IN  << [skills |-> must, w |-> 4], [skills |-> pref, w |-> 2],
           [skills |-> other, w |-> 1] >>

\* the partitions that are not empty
NonEmptyPartitions ==
    {i \in DOMAIN KeywordPartitions : KeywordPartitions[i].skills # {}}

\* the product of the sizes of the partitions of a set of indices
RECURSIVE SizeProduct(_)
SizeProduct(indices) ==
    IF indices = {} THEN 1
    ELSE LET i == CHOOSE j \in indices : TRUE
         IN  Cardinality(KeywordPartitions[i].skills) * SizeProduct(indices \ {i})

\* sum over the partitions of indices of w_p * |resumeSkills /\ p| / |p|,
\* times the product of the sizes of all non-empty partitions
RECURSIVE RecallSum(_)
RecallSum(indices) ==
    IF indices = {} THEN 0
    ELSE LET i == CHOOSE j \in indices : TRUE
             p == KeywordPartitions[i]
             found == Cardinality(extract_skills(frame.resume_clean) \cap p.skills)
         IN  p.w * found * SizeProduct(NonEmptyPartitions \ {i})
                 + RecallSum(indices \ {i})

\* the sum of the weights of the partitions of indices
RECURSIVE WeightSum(_)
WeightSum(indices) ==
    IF indices = {} THEN 0
    ELSE LET i == CHOOSE j \in indices : TRUE
         IN  KeywordPartitions[i].w + WeightSum(indices \ {i})

\* R = RecallNum / RecallDen
RecallNum == 100 * RecallSum(NonEmptyPartitions)
RecallDen ==
    IF NonEmptyPartitions = {} THEN 1
    ELSE WeightSum(NonEmptyPartitions) * SizeProduct(NonEmptyPartitions)

\* A = AdjustNum / AdjustDen = clamp((jaccard - 0.05) * 100, -10, +10)
AdjustDen ==
    Max(1, Cardinality(Tokens(frame.resume_clean) \cup Tokens(frame.job_clean)))
AdjustNum ==
    LET job_tokens == Tokens(frame.job_clean)
        inter == IF job_tokens = {} THEN 0
                 ELSE Cardinality(Tokens(frame.resume_clean) \cap job_tokens)
    IN  Max(0 - 10 * AdjustDen, Min(10 * AdjustDen, 100 * inter - 5 * AdjustDen))

\* clamp(R + A, 0, 100) to 1 decimal, in tenths
ExpectedKeywordScore ==
    LET den == RecallDen * AdjustDen
        num == RecallNum * AdjustDen + AdjustNum * RecallDen
    IN  RoundDiv(10 * Max(0, Min(100 * den, num)), den)

\* C22: keyword_score returns clamp(R + A, 0, 100) (to 1 decimal), R the
\* weighted recall over the non-empty partitions must-have (2.0), preferred
\* (1.0) and other (0.5), 0 when all are empty, and A the clamped Jaccard
\* adjustment; empty partitions add nothing, so with a non-empty partition
\* R is 100 exactly when the resume has every skill of every partition.
C22_KeywordFormula ==
    (Done /\ frame.mode = "classic") =>
        /\ frame.result.keywordScore = ExpectedKeywordScore
        /\ NonEmptyPartitions = {} => RecallNum = 0
        /\ NonEmptyPartitions # {} =>
               (RecallNum = 100 * RecallDen
                  <=> \A i \in NonEmptyPartitions :
                          KeywordPartitions[i].skills
                              \subseteq extract_skills(frame.resume_clean))

\* the must-have partition is half found, the others are empty, and the
\* score is between 0 and 100
C22_Witness ==
    /\ Done
    /\ frame.mode = "classic"
    /\ NonEmptyPartitions = {1}
    /\ 2 * RecallNum = 100 * RecallDen
    /\ frame.result.keywordScore > 0
    /\ frame.result.keywordScore < 1000


\* no encode call of the current request raised
NoEncodeRaised ==
    /\ ~frame.emb.resume_raises /\ ~frame.emb.job_raises
    /\ ~frame.emb.exp_raises /\ ~frame.emb.proj_raises

\* clamp(100 * (0.4*whole + 0.4*e + 0.2*p), 0, 100) in tenths, e and p the
\* section similarity when the section is non-empty and whole otherwise
ExpectedSemanticScore ==
    LET whole == frame.emb.whole
        e == IF frame.sections["EXPERIENCE"] # <<>> THEN frame.emb.exp ELSE whole
        p == IF frame.sections["PROJECTS"] # <<>> THEN frame.emb.proj ELSE whole
    IN  Max(0, Min(1000, 4 * whole + 4 * e + 2 * p))

\* C23: the semantic score is clamp(100 * (0.4*whole + 0.4*e + 0.2*p), 0, 100),
\* the weight of an empty section going to the whole-resume similarity; with
\* both sections empty it is 100 * whole clamped; the classic and the premium
\* pipeline compute the same value from the same similarities.
C23_SemanticFormula ==
    (Done /\ NoEncodeRaised) =>
        /\ frame.mode = "classic" =>
               frame.result.semanticScore = ExpectedSemanticScore
        /\ frame.mode = "premium" =>
               frame.result.semanticRetrievalScore = ExpectedSemanticScore
        /\ (frame.sections["EXPERIENCE"] = <<>> /\ frame.sections["PROJECTS"] = <<>>)
               => frame.semantic = Max(0, Min(1000, 10 * frame.emb.whole))

\* EXPERIENCE is non-empty and PROJECTS is empty, the section similarity
\* differs from the whole-resume one, and the score is strictly inside
C23_Witness ==
    /\ Done
    /\ NoEncodeRaised
    /\ frame.mode = "premium"
    /\ frame.sections["EXPERIENCE"] # <<>>
    /\ frame.sections["PROJECTS"] = <<>>
    /\ frame.emb.whole # frame.emb.exp
    /\ frame.result.semanticRetrievalScore > 0
    /\ frame.result.semanticRetrievalScore < 1000


(***************************************************************************)
(* Claims about evidence_score (SpecEvidence)                              *)
(***************************************************************************)
EvidenceDone == pc = "done" /\ frame.op = "evidence_score"

\* c: the skills of the resume when an action verb stands near them
SkillsNearVerb == IF frame.verbs = "none" THEN 0 ELSE frame.skills

\* m: the metrics patterns with a phrase in the resume
MetricsMatched == Cardinality(frame.metrics)

SnippetsDone == pc = "done" /\ frame.op = "extract_snippets"

\* the lines of a part (without its header) that are at least n long
RECURSIVE LinesAtLeast(_, _)
LinesAtLeast(lines, n) ==
    IF lines = <<>> THEN <<>>
    ELSE (IF Len(Head(lines)) >= n THEN <<Head(lines)>> ELSE <<>>)
             \o LinesAtLeast(Tail(lines), n)

\* the lines under the header of a part
Body(part) == IF part = <<>> THEN <<>> ELSE Tail(part)

\* the EXPERIENCE lines then the PROJECTS lines at least n long
SectionLinesAtLeast(n) ==
    LinesAtLeast(Body(frame.exp), n) \o LinesAtLeast(Body(frame.proj), n)

\* C25: _extract_snippets returns at most 20 snippets (MaxSnippets here): every
\* EXPERIENCE line and then every PROJECTS line of length >= 20
\* (SnippetMinLen here), in order, and the 200-character chunks of the
\* whole resume only when both sections are empty.
C25_SnippetsAsStated ==
    SnippetsDone =>
        /\ Len(frame.ret) <= MaxSnippets
        /\ frame.ret =
             Prefix(IF Body(frame.exp) = <<>> /\ Body(frame.proj) = <<>>
                    THEN Chunks(frame.text, 0)
                    ELSE SectionLinesAtLeast(SnippetMinLen),
                    MaxSnippets)

\* C25, amended: at most 20 snippets, the first 20 of the EXPERIENCE lines
\* and then the PROJECTS lines longer than 20 characters (SnippetMinLen), in
\* order; when there is no such line, whether the sections are empty or
\* hold only shorter lines, the first 20 of the whole-resume chunks longer
\* than 20 characters.
C25_SnippetsLongerLines ==
    SnippetsDone =>
        /\ Len(frame.ret) <= MaxSnippets
        /\ frame.ret =
             Prefix(IF SectionLinesAtLeast(SnippetMinLen + 1) = <<>>
                    THEN Chunks(frame.text, 0)
                    ELSE SectionLinesAtLeast(SnippetMinLen + 1),
                    MaxSnippets)

\* EXPERIENCE has a line of exactly the snippet length and a longer one,
\* PROJECTS a longer one: the snippets are the two longer lines, in order
C25_Witness ==
    /\ SnippetsDone
    /\ frame.exp = << <<"e">>, <<"a", "a">>, <<"c", SP, "c">> >>
    /\ frame.proj = << <<"j">>, <<"g", SP, "g", "g">> >>
    /\ frame.ret = << <<"c", SP, "c">>, <<"g", SP, "g", "g">> >>

\* EXPERIENCE holds only shorter lines: the snippets are chunks of the resume
C25_WitnessChunks ==
    /\ SnippetsDone
    /\ frame.exp = << <<"e">>, <<"a">> >>
    /\ frame.proj = <<>>
    /\ frame.ret # <<>>


(***************************************************************************)
(* Claims about sigmoid_calibrate (SpecCalibrate)                          *)
(***************************************************************************)
CalibrateDone == pc = "done" /\ frame.op = "sigmoid_calibrate"

Abs(n) == IF n >= 0 THEN n ELSE 0 - n

\* the distance from 50 of the score and of the calibrated value, thousandths
ScoreDistance == Abs(frame.score - 50000)
CalibratedDistance == Abs(100 * frame.ret - 50000)

\* the calibrated value is not below that of the next lower score
CalibrateMonotone ==
    frame.score > 0 => sigmoid_calibrate(frame.score - 1) <= frame.ret

C26_WitnessExtreme ==
    /\ CalibrateDone
    /\ frame.score = 100000
    /\ frame.ret = 982


(***************************************************************************)
(* Claims about the skill lists of score_match (Spec)                      *)
(***************************************************************************)
\* no entry of the list occurs at two positions
NoRepeat(list) ==
    \A i, k \in DOMAIN list : list[i] = list[k] => i = k

\* C27: in every score_match result topMatches contains no skill twice and
\* is a subset of matchedSkills, and missingKeywords contains no skill twice
\* and is a subset of missingSkills.
C27_ListsWithoutRepeats ==
    Done =>
        /\ NoRepeat(frame.result.topMatches)
        /\ Range(frame.result.topMatches) \subseteq Range(frame.result.matchedSkills)
        /\ NoRepeat(frame.result.missingKeywords)
        /\ Range(frame.result.missingKeywords)
               \subseteq Range(frame.result.missingSkills)


(***************************************************************************)
(* Requirements and the skills of the whole job text (SpecReq)             *)
(***************************************************************************)
\* C28: every skill that extract_requirements puts in mustHave or preferred
\* is also extracted from the whole job text: mustHave and preferred are
\* subsets of extract_skills(jobText), also when the must-have source is the
\* first-500-character cut (MustHaveHead here) or the space-joined lines.
C28_RequirementsInJobSkills ==
    ReqDone =>
        /\ frame.ret.must_have \subseteq extract_skills(frame.text)
        /\ frame.ret.preferred \subseteq extract_skills(frame.text)


(***************************************************************************)
(* Claims about the cap, the penalty and the final score (SpecFusion)      *)
(***************************************************************************)
FusionDone == pc = "done" /\ frame.op = "fusion"

\* the final score of another raw score and count, in the mode of the call
FinalOf(raw, missing_count) ==
    FinalScore(frame.mode, Constrained(raw, missing_count))

\* C29: the fused score is monotone: for a fixed number of missing must-have
\* skills a higher raw score never gives a lower final score, for a fixed
\* raw score one more missing must-have skill never gives a higher final
\* score, and with 6 or more missing must-have skills the constrained score
\* is 0 whatever the raw score; for the classic final score and for the
\* premium calibrated score.
C29_FusionMonotone ==
    FusionDone =>
        /\ \A r \in {frame.raw - 5, frame.raw - 1000} :
               r >= 0 => FinalOf(r, frame.missing_count) <= frame.ret
        /\ frame.missing_count > 0 =>
               FinalOf(frame.raw, frame.missing_count - 1) >= frame.ret
        /\ frame.missing_count >= 6 => frame.constrained = 0

\* a raw score of 100 with 6 missing must-have skills: constrained 0, and the
\* premium final score is the calibrated 0, that is 1.8
C29_Witness ==
    /\ FusionDone
    /\ frame.mode = "premium"
    /\ frame.raw = 100000
    /\ frame.missing_count = 6
    /\ frame.constrained = 0
    /\ frame.ret = 18

\* a raw score of 80 with one missing must-have skill: classic 58.0
C29_WitnessClassic ==
    /\ FusionDone
    /\ frame.mode = "classic"
    /\ frame.raw = 80000
    /\ frame.missing_count = 1
    /\ frame.ret = 580


(***************************************************************************)
(* Cleaning a cleaned text (SpecClean)                                     *)
(***************************************************************************)
\* C30: clean_text is idempotent on its text output: cleaning the already
\* cleaned text returns the same text and reports no truncation.
C30_CleanTextIdempotent ==
    CleanDone =>
        clean_text(frame.ret.text)
            = [text |-> frame.ret.text, was_truncated |-> FALSE]

====
